---- MODULE Spec2Model ----
(***************************************************************************)
(* Model of the playlist migration service of MusicMigration-API:          *)
(* Service.MigratePlaylist and the worker pool of                          *)
(* Service.searchTracksParallel (internal/app/migration_service.go), with  *)
(* the provider registry it resolves names in and the MusicProvider port   *)
(* it calls.  Provider calls are nondeterministic: each call returns any   *)
(* of the outcomes its Go signature allows.                                *)
(***************************************************************************)
EXTENDS Integers, Sequences, FiniteSets, TLC

\* ------------------------------------------------------------------ bounds
MaxTracks == 2          \* longest source playlist explored
MaxWorkers == 2         \* largest configured worker count explored
MaxPages == 2           \* pages of one remote playlist
MaxPerPage == 2         \* entries on one page
MaxRegisters == 2       \* Register calls made on one registry

\* --------------------------------------------------------------- data model
ProviderNames == {"spotify", "youtube"}

\* domain.Track, reduced to the fields the orchestrator reads
Track(n, e) == [Name |-> n, ExternalID |-> e]
ZeroTrack == Track("", "")
\* the tracks of the source playlist, in playlist order
SourceCatalogue ==
    <<Track("a", "s1"), Track("b", "s2"), Track("c", "s3"), Track("d", "s4")>>
\* the destination's candidate for a source track: same name, its own ID
CandidateID == [a |-> "x", b |-> "y", c |-> "z", d |-> "w"]
Candidate(t) == Track(t.Name, CandidateID[t.Name])

\* a Go pointer is a sequence of length 0 (nil) or 1
Nil == <<>>
Ptr(v) == <<v>>

\* a Go error, and the text its Error() yields, is the chain of its messages,
\* outermost first (fmt.Errorf("msg: %w", cause) prefixes one); nil is <<>>
NoErr == <<>>
Errorf(msg, cause) == <<msg>> \o cause

\* domain.TrackStatus
TrackStatusMatched == "matched"
TrackStatusNotFound == "not_found"
TrackStatusError == "error"

\* domain.TrackResult; ZeroResult is the value make() fills the slice with
TrackResult(src, m, st, sc, e) ==
    [SourceTrack |-> src, MatchedTrack |-> m, Status |-> st,
     ConfidenceScore |-> sc, Error |-> e]
ZeroResult == TrackResult(ZeroTrack, Nil, "", 0, NoErr)

\* scores are scaled by 100
Scores == {0, 90}
SearchErrors == {NoErr, <<"search quota exceeded">>}

\* the (matched, score, err) triples SearchTrack may return for track t: any
\* combination without an error; with an error, nothing else or a candidate
\* with its score
SearchOutcomes(t) ==
    {o \in [track : {Nil, Ptr(Candidate(t))}, score : Scores,
            err : SearchErrors] :
        o.err # NoErr => (o.track = Nil <=> o.score = 0)}

\* what a SearchTrack call that aborts on the cancelled ctx returns
CancelErr == <<"search failed", "context canceled">>
AbortedOutcome == [track |-> Nil, score |-> 0, err |-> CancelErr]

PlaylistIDs == {"pl-1", "pl-2"}

VARIABLES
    registry,       \* ProviderRegistry.providers: the registered names
    cfgWorkers,     \* the worker count handed to NewService
    workers,        \* Service.workers
    req,            \* the MigrationRequest
    cancelled,      \* ctx.Done() is closed
    pc,             \* position of the MigratePlaylist goroutine
    tracks,         \* tracks, indexed 0..N-1
    trackCh,        \* buffer of trackCh
    trackClosed,    \* trackCh is closed
    resultCh,       \* buffer of resultCh
    resultClosed,   \* resultCh is closed
    wg,             \* sync.WaitGroup counter
    launched,       \* workers started so far (loop variable i)
    sent,           \* tracks enqueued so far (loop variable i)
    wpc,            \* position of each worker goroutine
    witem,          \* item each worker holds
    wres,           \* result each worker is about to deposit
    waiter,         \* position of the wg.Wait goroutine
    results,        \* the results slice, indexed 0..N-1
    matchedIDs, matched, failed,
    destPlaylistID,
    ret,            \* what MigratePlaylist returned
    calls,          \* history: provider operations invoked, with outcomes
    collected,      \* history: indices in the order the collector got them
    iso,            \* further requests running on the same Service
    rg,             \* a ProviderRegistry with its concurrent callers
    sc,             \* a pair of tracks and what the two scorers make of it
    hs,             \* an HTTP exchange of the Handler
    ad              \* a call of an adapter in progress

vars == <<registry, cfgWorkers, workers, req, cancelled, pc, tracks, trackCh,
          trackClosed, resultCh, resultClosed, wg, launched, sent, wpc, witem,
          wres, waiter, results, matchedIDs, matched, failed, destPlaylistID,
          ret, calls, collected, iso, rg, sc, hs, ad>>

pipeVars == <<trackCh, trackClosed, resultCh, resultClosed, wg, launched, sent,
              wpc, witem, wres, waiter, results>>
aggVars == <<matchedIDs, matched, failed, destPlaylistID>>
cfgVars == <<registry, cfgWorkers, workers, req, iso, rg, sc, hs, ad>>
\* the Service and its single request
reqVars == <<registry, cfgWorkers, workers, req, cancelled, pc, tracks,
             pipeVars, aggVars, ret, calls, collected>>

WorkerIds == 0 .. (MaxWorkers - 1)
NTracks == Cardinality(DOMAIN tracks)
EmptySlice == [i \in {} |-> ZeroResult]
NoItem == [index |-> 0, track |-> ZeroTrack]
NoPending == [index |-> 0, result |-> ZeroResult]

\* variant of NewService that keeps the configured count as it is
NewServiceNoClamp(w) == w

\* NewService: a worker count below 1 becomes 1
NewService(w) == IF w < 1 THEN 1 ELSE w

\* ProviderRegistry.Get
RegistryGet(name) ==
    IF name \in registry THEN NoErr
    ELSE Errorf("unknown provider", <<name>>)

\* get, create, add: the calls in order; search[i]: SearchTrack calls started
\* for source index i; out[i]: what those calls returned
NoCalls ==
    [get |-> <<>>, search |-> [i \in {} |-> 0], out |-> [i \in {} |-> <<>>],
     create |-> <<>>, add |-> <<>>]

\* Two calls of MigratePlaylist on one Service, each with its own playlist;
\* rq[r] holds the locals of call r from the launch of its workers on, ch[c]
\* the pair of channels c
IsoRequests == {1, 2}
IsoTracks ==
    [r \in IsoRequests |->
        IF r = 1
        THEN [i \in {0, 1} |-> SourceCatalogue[i + 1]]
        ELSE [i \in {0, 1} |-> SourceCatalogue[i + 3]]]
IsoStart ==
    [rq |-> [r \in IsoRequests |->
                [pc |-> "launch", launched |-> 0, sent |-> 0, wg |-> 0,
                 wpc |-> [w \in WorkerIds |-> "idle"],
                 witem |-> [w \in WorkerIds |-> NoItem],
                 wres |-> [w \in WorkerIds |-> NoPending],
                 waiter |-> "idle", results |-> EmptySlice,
                 ret |-> [result |-> Nil, err |-> NoErr]]],
     ch |-> [c \in IsoRequests |->
                [trackCh |-> <<>>, trackClosed |-> FALSE,
                 resultCh |-> <<>>, resultClosed |-> FALSE]]]

\* no further request is running
IsoNone == <<>>

\* the Service after NewService and one request at the entry of MigratePlaylist
InitRequest ==
    /\ registry \in SUBSET ProviderNames
    /\ cfgWorkers \in 0 .. MaxWorkers
    /\ workers = NewService(cfgWorkers)
    /\ req = [SourceProvider |-> "spotify", DestProvider |-> "youtube",
             PlaylistID |-> "playlist-1"]
    /\ cancelled = FALSE
    /\ pc = "resolveSource"
    /\ tracks = EmptySlice
    /\ trackCh = <<>>
    /\ trackClosed = FALSE
    /\ resultCh = <<>>
    /\ resultClosed = FALSE
    /\ wg = 0
    /\ launched = 0
    /\ sent = 0
    /\ wpc = [w \in WorkerIds |-> "idle"]
    /\ witem = [w \in WorkerIds |-> NoItem]
    /\ wres = [w \in WorkerIds |-> NoPending]
    /\ waiter = "idle"
    /\ results = EmptySlice
    /\ matchedIDs = <<>>
    /\ matched = 0
    /\ failed = 0
    /\ destPlaylistID = ""
    /\ ret = [result |-> Nil, err |-> NoErr]
    /\ calls = NoCalls
    /\ collected = <<>>

\* a component that takes no step in the specification at hand
Idle == <<>>

Init ==
    /\ InitRequest
    /\ iso = IsoNone /\ rg = Idle /\ sc = Idle /\ hs = Idle /\ ad = Idle

\* the Service at rest, while another component is exercised
Parked ==
    /\ InitRequest
    /\ registry = ProviderNames
    /\ cfgWorkers = MaxWorkers
    /\ iso = IsoNone

\* return nil, err
ReturnError(err) ==
    /\ pc' = "done"
    /\ ret' = [result |-> Nil, err |-> err]

\* ctx is cancelled by the caller at any moment of the request
Cancel ==
    /\ pc # "done"
    /\ ~cancelled
    /\ cancelled' = TRUE
    /\ UNCHANGED <<cfgVars, pc, tracks, pipeVars, aggVars, ret, calls, collected>>

\* variant of ResolveSource that blames the destination side
ResolveSourceWrongSide ==
    /\ pc = "resolveSource"
    /\ LET err == RegistryGet(req.SourceProvider) IN
         IF err # NoErr
         THEN ReturnError(Errorf("destination provider error", err))
         ELSE pc' = "resolveDest" /\ UNCHANGED ret
    /\ UNCHANGED <<cfgVars, cancelled, tracks, pipeVars, aggVars, calls,
                   collected>>

\* source, err := s.registry.Get(req.SourceProvider)
ResolveSource ==
    /\ pc = "resolveSource"
    /\ LET err == RegistryGet(req.SourceProvider) IN
         IF err # NoErr
         THEN ReturnError(Errorf("source provider error", err))
         ELSE pc' = "resolveDest" /\ UNCHANGED ret
    /\ UNCHANGED <<cfgVars, cancelled, tracks, pipeVars, aggVars, calls,
                   collected>>

\* dest, err := s.registry.Get(req.DestProvider)
ResolveDest ==
    /\ pc = "resolveDest"
    /\ LET err == RegistryGet(req.DestProvider) IN
         IF err # NoErr
         THEN ReturnError(Errorf("destination provider error", err))
         ELSE pc' = "fetch" /\ UNCHANGED ret
    /\ UNCHANGED <<cfgVars, cancelled, tracks, pipeVars, aggVars, calls,
                   collected>>

\* tracks, err := source.GetPlaylistTracks(...); the empty-list check follows
FetchErrors == {<<"source unavailable">>}
CreateErrors == {<<"create refused">>}
AddErrors == {<<"add refused">>}

\* what GetPlaylistTracks may return: the first n tracks, n = 0 included
TrackLists ==
    {[i \in 0 .. (n - 1) |-> SourceCatalogue[i + 1]] : n \in 0 .. MaxTracks}

\* variant of FetchTracks that goes on with an empty track list
FetchTracksNoEmptyCheck ==
    /\ pc = "fetch"
    /\ \/ \E e \in FetchErrors :
            /\ ReturnError(Errorf("failed to fetch source tracks", e))
            /\ calls' = [calls EXCEPT !.get = Append(@,
                            [prov |-> req.SourceProvider, err |-> e])]
            /\ UNCHANGED tracks
       \/ \E t \in TrackLists :
            /\ tracks' = t
            /\ pc' = IF 0 < workers THEN "launch" ELSE "produce"
            /\ UNCHANGED ret
            /\ calls' = [calls EXCEPT
                            !.get = Append(@, [prov |-> req.SourceProvider,
                                               err |-> NoErr]),
                            !.search = [i \in DOMAIN t |-> 0],
                            !.out = [i \in DOMAIN t |-> <<>>]]
    /\ UNCHANGED <<cfgVars, cancelled, pipeVars, aggVars, collected>>

\* source.GetPlaylistTracks(...) returns; if len(tracks) == 0 { return error }
FetchTracks ==
    /\ pc = "fetch"
    /\ \/ \E e \in FetchErrors :
            /\ ReturnError(Errorf("failed to fetch source tracks", e))
            /\ calls' = [calls EXCEPT !.get = Append(@,
                            [prov |-> req.SourceProvider, err |-> e])]
            /\ UNCHANGED tracks
       \/ \E t \in TrackLists :
            /\ IF Cardinality(DOMAIN t) = 0
               THEN /\ ReturnError(<<"source playlist is empty">>)
                    /\ UNCHANGED tracks
               ELSE /\ tracks' = t
                    /\ pc' = IF 0 < workers THEN "launch" ELSE "produce"
                    /\ UNCHANGED ret
            /\ calls' = [calls EXCEPT
                            !.get = Append(@, [prov |-> req.SourceProvider,
                                               err |-> NoErr]),
                            !.search = [i \in DOMAIN t |-> 0],
                            !.out = [i \in DOMAIN t |-> <<>>]]
    /\ UNCHANGED <<cfgVars, cancelled, pipeVars, aggVars, collected>>

\* variant of ChanCap with one slot less
ChanCapShort(n) == n - 1

\* make(chan ..., len(tracks)): both channels are buffered with capacity N
ChanCap(n) == n

\* go func(workerID int) {...}(i), after wg.Add(1)
LaunchWorker ==
    /\ pc = "launch"
    /\ launched < workers
    /\ wg' = wg + 1
    /\ wpc' = [wpc EXCEPT ![launched] = "recv"]
    /\ launched' = launched + 1
    /\ pc' = IF launched + 1 < workers THEN "launch" ELSE "produce"
    /\ UNCHANGED <<cfgVars, cancelled, tracks, trackCh, trackClosed, resultCh,
                   resultClosed, sent, witem, wres, waiter, results, aggVars,
                   ret, calls, collected>>

\* variant of Produce that tags every item with index 0
ProduceStaleIndex ==
    /\ pc = "produce"
    /\ sent < NTracks
    /\ Len(trackCh) < ChanCap(NTracks)
    /\ trackCh' = Append(trackCh, [index |-> 0, track |-> tracks[sent]])
    /\ sent' = sent + 1
    /\ UNCHANGED <<cfgVars, cancelled, pc, tracks, trackClosed, resultCh,
                   resultClosed, wg, launched, wpc, witem, wres, waiter,
                   results, aggVars, ret, calls, collected>>

\* trackCh <- {index: i, track: track}
Produce ==
    /\ pc = "produce"
    /\ sent < NTracks
    /\ Len(trackCh) < ChanCap(NTracks)
    /\ trackCh' = Append(trackCh, [index |-> sent, track |-> tracks[sent]])
    /\ sent' = sent + 1
    /\ UNCHANGED <<cfgVars, cancelled, pc, tracks, trackClosed, resultCh,
                   resultClosed, wg, launched, wpc, witem, wres, waiter,
                   results, aggVars, ret, calls, collected>>

\* variant of CloseTrackCh that closes trackCh after the first item
CloseTrackChEarly ==
    /\ pc = "produce"
    /\ sent >= 1
    /\ trackClosed' = TRUE
    /\ pc' = "spawn"
    /\ UNCHANGED <<cfgVars, cancelled, tracks, trackCh, resultCh, resultClosed,
                   wg, launched, sent, wpc, witem, wres, waiter, results,
                   aggVars, ret, calls, collected>>

\* the range over tracks is exhausted: close(trackCh)
CloseTrackCh ==
    /\ pc = "produce"
    /\ sent >= NTracks
    /\ trackClosed' = TRUE
    /\ pc' = "spawn"
    /\ UNCHANGED <<cfgVars, cancelled, tracks, trackCh, resultCh, resultClosed,
                   wg, launched, sent, wpc, witem, wres, waiter, results,
                   aggVars, ret, calls, collected>>

\* go func() { wg.Wait(); close(resultCh) }(); results := make(..., len(tracks))
SpawnWaiter ==
    /\ pc = "spawn"
    /\ waiter' = "wait"
    /\ results' = [i \in DOMAIN tracks |-> ZeroResult]
    /\ pc' = "collect"
    /\ UNCHANGED <<cfgVars, cancelled, tracks, trackCh, trackClosed, resultCh,
                   resultClosed, wg, launched, sent, wpc, witem, wres, aggVars,
                   ret, calls, collected>>

\* variant of WaiterClose that closes resultCh without waiting for the workers
WaiterCloseEarly ==
    /\ waiter = "wait"
    /\ resultClosed' = TRUE
    /\ waiter' = "done"
    /\ UNCHANGED <<cfgVars, cancelled, pc, tracks, trackCh, trackClosed,
                   resultCh, wg, launched, sent, wpc, witem, wres, results,
                   aggVars, ret, calls, collected>>

\* wg.Wait() returns when the counter is zero; close(resultCh)
WaiterClose ==
    /\ waiter = "wait"
    /\ wg = 0
    /\ resultClosed' = TRUE
    /\ waiter' = "done"
    /\ UNCHANGED <<cfgVars, cancelled, pc, tracks, trackCh, trackClosed,
                   resultCh, wg, launched, sent, wpc, witem, wres, results,
                   aggVars, ret, calls, collected>>

\* variant of StoreResult that fills the slots in arrival order
StoreResultAppend(res, ir) ==
    LET free == {i \in DOMAIN res : res[i] = ZeroResult} IN
    IF free = {} THEN res
    ELSE [res EXCEPT ![CHOOSE i \in free : \A j \in free : i <= j] = ir.result]

\* results[ir.index] = ir.result
StoreResult(res, ir) == [res EXCEPT ![ir.index] = ir.result]

\* variant of Collect that leaves the loop as soon as the queue is empty
CollectNoWait ==
    /\ pc = "collect"
    /\ IF Len(resultCh) > 0
       THEN /\ results' = StoreResult(results, Head(resultCh))
            /\ resultCh' = Tail(resultCh)
            /\ collected' = Append(collected, Head(resultCh).index)
            /\ UNCHANGED pc
       ELSE /\ pc' = "aggregate"
            /\ UNCHANGED <<results, resultCh, collected>>
    /\ UNCHANGED <<cfgVars, cancelled, tracks, trackCh, trackClosed,
                   resultClosed, wg, launched, sent, wpc, witem, wres, waiter,
                   aggVars, ret, calls>>

\* for ir := range resultCh {...}; return results
Collect ==
    /\ pc = "collect"
    /\ IF Len(resultCh) > 0
       THEN /\ results' = StoreResult(results, Head(resultCh))
            /\ resultCh' = Tail(resultCh)
            /\ collected' = Append(collected, Head(resultCh).index)
            /\ UNCHANGED pc
       ELSE /\ resultClosed
            /\ pc' = "aggregate"
            /\ UNCHANGED <<results, resultCh, collected>>
    /\ UNCHANGED <<cfgVars, cancelled, tracks, trackCh, trackClosed,
                   resultClosed, wg, launched, sent, wpc, witem, wres, waiter,
                   aggVars, ret, calls>>

\* for item := range trackCh: take an item, or leave the loop (wg.Done)
\* once the channel is closed and drained
WorkerRecv(w) ==
    /\ wpc[w] = "recv"
    /\ IF Len(trackCh) > 0
       THEN /\ witem' = [witem EXCEPT ![w] = Head(trackCh)]
            /\ trackCh' = Tail(trackCh)
            /\ wpc' = [wpc EXCEPT ![w] = "select"]
            /\ UNCHANGED wg
       ELSE /\ trackClosed
            /\ wg' = wg - 1
            /\ wpc' = [wpc EXCEPT ![w] = "exited"]
            /\ UNCHANGED <<witem, trackCh>>
    /\ UNCHANGED <<cfgVars, cancelled, pc, tracks, trackClosed, resultCh,
                   resultClosed, launched, sent, wres, waiter, results,
                   aggVars, ret, calls, collected>>

\* the result a worker records when it sees ctx.Done() before searching
CancelledResult(track) ==
    TrackResult(track, Nil, TrackStatusError, 0, <<"context cancelled">>)

\* variant of WorkerSelect that skips a cancelled item without a result
WorkerSelectDrop(w) ==
    /\ wpc[w] = "select"
    /\ IF cancelled
       THEN /\ witem' = [witem EXCEPT ![w] = NoItem]
            /\ wpc' = [wpc EXCEPT ![w] = "recv"]
            /\ UNCHANGED <<calls, wres>>
       ELSE /\ calls' = [calls EXCEPT !.search[witem[w].index] = @ + 1]
            /\ wpc' = [wpc EXCEPT ![w] = "search"]
            /\ UNCHANGED <<witem, wres>>
    /\ UNCHANGED <<cfgVars, cancelled, pc, tracks, trackCh, trackClosed,
                   resultCh, resultClosed, wg, launched, sent, waiter, results,
                   aggVars, ret, collected>>

\* select { case <-ctx.Done(): ...; default: }, then the call of SearchTrack
WorkerSelect(w) ==
    /\ wpc[w] = "select"
    /\ IF cancelled
       THEN /\ wres' = [wres EXCEPT ![w] =
                            [index |-> witem[w].index,
                             result |-> CancelledResult(witem[w].track)]]
            /\ witem' = [witem EXCEPT ![w] = NoItem]
            /\ wpc' = [wpc EXCEPT ![w] = "send"]
            /\ UNCHANGED calls
       ELSE /\ calls' = [calls EXCEPT !.search[witem[w].index] = @ + 1]
            /\ wpc' = [wpc EXCEPT ![w] = "search"]
            /\ UNCHANGED <<witem, wres>>
    /\ UNCHANGED <<cfgVars, cancelled, pc, tracks, trackCh, trackClosed,
                   resultCh, resultClosed, wg, launched, sent, waiter, results,
                   aggVars, ret, collected>>

\* variant of Classify that looks at the returned track before the error
ClassifyTrackFirst(track, out) ==
    IF out.track # Nil
    THEN TrackResult(track, out.track, TrackStatusMatched, out.score, NoErr)
    ELSE IF out.err # NoErr
    THEN TrackResult(track, Nil, TrackStatusError, 0, out.err)
    ELSE TrackResult(track, Nil, TrackStatusNotFound, 0, NoErr)

\* variant of Classify that copies the returned track and score in every case
ClassifyCopyAll(track, out) ==
    TrackResult(track, out.track,
                IF out.err # NoErr THEN TrackStatusError
                ELSE IF out.track = Nil THEN TrackStatusNotFound
                ELSE TrackStatusMatched,
                out.score, out.err)

\* the TrackResult built from what SearchTrack returned
Classify(track, out) ==
    IF out.err # NoErr
    THEN TrackResult(track, Nil, TrackStatusError, 0, out.err)
    ELSE IF out.track = Nil
    THEN TrackResult(track, Nil, TrackStatusNotFound, 0, NoErr)
    ELSE TrackResult(track, out.track, TrackStatusMatched, out.score, NoErr)

\* variant of WorkerSearchReturn that looks at ctx again after the call
WorkerSearchReturnCtxCheck(w) ==
    /\ wpc[w] = "search"
    /\ \E out \in SearchOutcomes(witem[w].track)
                    \cup (IF cancelled THEN {AbortedOutcome} ELSE {}) :
         /\ wres' = [wres EXCEPT ![w] =
                         [index |-> witem[w].index,
                          result |-> IF cancelled
                                     THEN CancelledResult(witem[w].track)
                                     ELSE Classify(witem[w].track, out)]]
         /\ calls' = [calls EXCEPT !.out[witem[w].index] = Append(@, out)]
    /\ witem' = [witem EXCEPT ![w] = NoItem]
    /\ wpc' = [wpc EXCEPT ![w] = "send"]
    /\ UNCHANGED <<cfgVars, cancelled, pc, tracks, trackCh, trackClosed,
                   resultCh, resultClosed, wg, launched, sent, waiter, results,
                   aggVars, ret, collected>>

\* matched, score, err := dest.SearchTrack(ctx, token, item.track) returns
WorkerSearchReturn(w) ==
    /\ wpc[w] = "search"
    /\ \E out \in SearchOutcomes(witem[w].track)
                    \cup (IF cancelled THEN {AbortedOutcome} ELSE {}) :
         /\ wres' = [wres EXCEPT ![w] =
                         [index |-> witem[w].index,
                          result |-> Classify(witem[w].track, out)]]
         /\ calls' = [calls EXCEPT !.out[witem[w].index] = Append(@, out)]
    /\ witem' = [witem EXCEPT ![w] = NoItem]
    /\ wpc' = [wpc EXCEPT ![w] = "send"]
    /\ UNCHANGED <<cfgVars, cancelled, pc, tracks, trackCh, trackClosed,
                   resultCh, resultClosed, wg, launched, sent, waiter, results,
                   aggVars, ret, collected>>

\* resultCh <- indexedResult{...}
WorkerSend(w) ==
    /\ wpc[w] = "send"
    /\ ~resultClosed
    /\ Len(resultCh) < ChanCap(NTracks)
    /\ resultCh' = Append(resultCh, wres[w])
    /\ wres' = [wres EXCEPT ![w] = NoPending]
    /\ wpc' = [wpc EXCEPT ![w] = "recv"]
    /\ UNCHANGED <<cfgVars, cancelled, pc, tracks, trackCh, trackClosed,
                   resultClosed, wg, launched, sent, witem, waiter, results,
                   aggVars, ret, calls, collected>>

\* the test of the aggregation loop
\* variant of IsMatched with a minimum score
IsMatchedAboveZero(r) ==
    r.Status = TrackStatusMatched /\ r.MatchedTrack # Nil /\ r.ConfidenceScore > 0

\* Status == TrackStatusMatched && MatchedTrack != nil
IsMatched(r) == r.Status = TrackStatusMatched /\ r.MatchedTrack # Nil

\* variant of AggregateFrom that counts only errors as failed
RECURSIVE AggregateFromErrorsOnly(_, _, _)
AggregateFromErrorsOnly(res, i, acc) ==
    IF i \notin DOMAIN res THEN acc
    ELSE IF IsMatched(res[i])
    THEN AggregateFromErrorsOnly(res, i + 1,
             [ids |-> Append(acc.ids, res[i].MatchedTrack[1].ExternalID),
              matched |-> acc.matched + 1, failed |-> acc.failed])
    ELSE AggregateFromErrorsOnly(res, i + 1,
             [ids |-> acc.ids, matched |-> acc.matched,
              failed |-> IF res[i].Status = TrackStatusError
                         THEN acc.failed + 1 ELSE acc.failed])

\* variant of AggregateFrom that puts each matched ID in front
RECURSIVE AggregateFromPrepend(_, _, _)
AggregateFromPrepend(res, i, acc) ==
    IF i \notin DOMAIN res THEN acc
    ELSE IF IsMatched(res[i])
    THEN AggregateFromPrepend(res, i + 1,
             [ids |-> <<res[i].MatchedTrack[1].ExternalID>> \o acc.ids,
              matched |-> acc.matched + 1, failed |-> acc.failed])
    ELSE AggregateFromPrepend(res, i + 1,
             [ids |-> acc.ids, matched |-> acc.matched,
              failed |-> acc.failed + 1])

\* for i := range results {...}: matchedIDs, matched and failed after the
\* iterations i, i+1, ..., starting from acc
RECURSIVE AggregateFrom(_, _, _)
AggregateFrom(res, i, acc) ==
    IF i \notin DOMAIN res THEN acc
    ELSE IF IsMatched(res[i])
    THEN AggregateFrom(res, i + 1,
             [ids |-> Append(acc.ids, res[i].MatchedTrack[1].ExternalID),
              matched |-> acc.matched + 1, failed |-> acc.failed])
    ELSE AggregateFrom(res, i + 1,
             [ids |-> acc.ids, matched |-> acc.matched,
              failed |-> acc.failed + 1])

\* variant of Aggregate that lists the matched IDs in the order of arrival
AggregateByArrival ==
    /\ pc = "aggregate"
    /\ LET a == AggregateFrom(results, 0,
                    [ids |-> <<>>, matched |-> 0, failed |-> 0])
           arrived == SelectSeq(collected, LAMBDA i : IsMatched(results[i]))
       IN
         /\ matchedIDs' = [k \in 1 .. Len(arrived) |->
                              results[arrived[k]].MatchedTrack[1].ExternalID]
         /\ matched' = a.matched
         /\ failed' = a.failed
    /\ pc' = "create"
    /\ UNCHANGED <<cfgVars, cancelled, tracks, pipeVars, destPlaylistID, ret,
                   calls, collected>>

\* variant of Aggregate that gives up when ctx is cancelled
AggregateCtxCheck ==
    /\ pc = "aggregate"
    /\ IF cancelled
       THEN ReturnError(<<"context canceled">>)
       ELSE pc' = "create" /\ UNCHANGED ret
    /\ LET a == AggregateFrom(results, 0,
                    [ids |-> <<>>, matched |-> 0, failed |-> 0]) IN
         /\ matchedIDs' = a.ids
         /\ matched' = a.matched
         /\ failed' = a.failed
    /\ UNCHANGED <<cfgVars, cancelled, tracks, pipeVars, destPlaylistID, calls,
                   collected>>

\* variant of Aggregate that gives up when a track search failed
AggregateAbortOnError ==
    /\ pc = "aggregate"
    /\ IF \E i \in DOMAIN results : results[i].Status = TrackStatusError
       THEN ReturnError(<<"track search failed">>)
       ELSE pc' = "create" /\ UNCHANGED ret
    /\ LET a == AggregateFrom(results, 0,
                    [ids |-> <<>>, matched |-> 0, failed |-> 0]) IN
         /\ matchedIDs' = a.ids
         /\ matched' = a.matched
         /\ failed' = a.failed
    /\ UNCHANGED <<cfgVars, cancelled, tracks, pipeVars, destPlaylistID, calls,
                   collected>>

\* Step 3: the aggregation loop over results
Aggregate ==
    /\ pc = "aggregate"
    /\ LET a == AggregateFrom(results, 0,
                    [ids |-> <<>>, matched |-> 0, failed |-> 0]) IN
         /\ matchedIDs' = a.ids
         /\ matched' = a.matched
         /\ failed' = a.failed
    /\ pc' = "create"
    /\ UNCHANGED <<cfgVars, cancelled, tracks, pipeVars, destPlaylistID, ret,
                   calls, collected>>

\* variant of CreatePlaylist that creates nothing when no track matched
CreatePlaylistSkipEmpty ==
    /\ pc = "create"
    /\ LET call == [prov |-> req.DestProvider,
                    name |-> <<"Migrated from", req.SourceProvider>>,
                    matched |-> matched,
                    total |-> NTracks] IN
       IF matched = 0
       THEN /\ pc' = "done"
            /\ ret' = [result |-> Ptr([SourcePlaylist |-> req.PlaylistID,
                                       DestPlaylistID |-> destPlaylistID,
                                       TotalTracks |-> NTracks,
                                       MatchedTracks |-> matched,
                                       FailedTracks |-> failed,
                                       TrackResults |-> results]),
                       err |-> NoErr]
            /\ UNCHANGED <<calls, destPlaylistID>>
       ELSE \/ \E e \in CreateErrors :
                 /\ ReturnError(Errorf("failed to create destination playlist", e))
                 /\ calls' = [calls EXCEPT !.create = Append(@,
                                 [call |-> call, id |-> "", err |-> e])]
                 /\ UNCHANGED destPlaylistID
            \/ \E id \in PlaylistIDs :
                 /\ destPlaylistID' = id
                 /\ calls' = [calls EXCEPT !.create = Append(@,
                                 [call |-> call, id |-> id, err |-> NoErr])]
                 /\ pc' = "add"
                 /\ UNCHANGED ret
    /\ UNCHANGED <<cfgVars, cancelled, tracks, pipeVars, matchedIDs, matched,
                   failed, collected>>

\* variant of CreatePlaylist that calls the provider again after a first failure
CreatePlaylistRetry ==
    /\ pc = "create"
    /\ LET call == [prov |-> req.DestProvider,
                    name |-> <<"Migrated from", req.SourceProvider>>,
                    matched |-> matched,
                    total |-> NTracks] IN
       \/ \E e \in CreateErrors :
            /\ IF calls.create = <<>>
               THEN UNCHANGED <<pc, ret>>
               ELSE ReturnError(Errorf("failed to create destination playlist", e))
            /\ calls' = [calls EXCEPT !.create = Append(@,
                            [call |-> call, id |-> "", err |-> e])]
            /\ UNCHANGED destPlaylistID
       \/ \E id \in PlaylistIDs :
            /\ destPlaylistID' = id
            /\ calls' = [calls EXCEPT !.create = Append(@,
                            [call |-> call, id |-> id, err |-> NoErr])]
            /\ pc' = "add"
            /\ UNCHANGED ret
    /\ UNCHANGED <<cfgVars, cancelled, tracks, pipeVars, matchedIDs, matched,
                   failed, collected>>

\* destPlaylistID, err := dest.CreatePlaylist(ctx, token, name, description)
CreatePlaylist ==
    /\ pc = "create"
    /\ LET call == [prov |-> req.DestProvider,
                    name |-> <<"Migrated from", req.SourceProvider>>,
                    matched |-> matched,
                    total |-> NTracks] IN
       \/ \E e \in CreateErrors :
            /\ ReturnError(Errorf("failed to create destination playlist", e))
            /\ calls' = [calls EXCEPT !.create = Append(@,
                            [call |-> call, id |-> "", err |-> e])]
            /\ UNCHANGED destPlaylistID
       \/ \E id \in PlaylistIDs :
            /\ destPlaylistID' = id
            /\ calls' = [calls EXCEPT !.create = Append(@,
                            [call |-> call, id |-> id, err |-> NoErr])]
            /\ pc' = "add"
            /\ UNCHANGED ret
    /\ UNCHANGED <<cfgVars, cancelled, tracks, pipeVars, matchedIDs, matched,
                   failed, collected>>

\* return &domain.MigrationResult{...}, nil
ReturnResult ==
    /\ pc' = "done"
    /\ ret' = [result |-> Ptr([SourcePlaylist |-> req.PlaylistID,
                               DestPlaylistID |-> destPlaylistID,
                               TotalTracks |-> NTracks,
                               MatchedTracks |-> matched,
                               FailedTracks |-> failed,
                               TrackResults |-> results]),
               err |-> NoErr]

\* variant of AddTracks that reports the result next to the error of the add
AddTracksReport ==
    /\ pc = "add"
    /\ IF Len(matchedIDs) > 0
       THEN LET call == [prov |-> req.DestProvider,
                         playlist |-> destPlaylistID,
                         ids |-> matchedIDs] IN
            \/ \E e \in AddErrors :
                 /\ pc' = "done"
                 /\ ret' = [result |-> Ptr([SourcePlaylist |-> req.PlaylistID,
                                            DestPlaylistID |-> destPlaylistID,
                                            TotalTracks |-> NTracks,
                                            MatchedTracks |-> matched,
                                            FailedTracks |-> failed,
                                            TrackResults |-> results]),
                            err |-> Errorf(
                                "failed to add tracks to destination playlist", e)]
                 /\ calls' = [calls EXCEPT !.add = Append(@,
                                 [call |-> call, err |-> e])]
            \/ /\ ReturnResult
               /\ calls' = [calls EXCEPT !.add = Append(@,
                               [call |-> call, err |-> NoErr])]
       ELSE /\ ReturnResult
            /\ UNCHANGED calls
    /\ UNCHANGED <<cfgVars, cancelled, tracks, pipeVars, aggVars, collected>>

\* variant of AddTracks that returns the result although the add failed
AddTracksSwallow ==
    /\ pc = "add"
    /\ IF Len(matchedIDs) > 0
       THEN LET call == [prov |-> req.DestProvider,
                         playlist |-> destPlaylistID,
                         ids |-> matchedIDs] IN
            /\ ReturnResult
            /\ \E e \in AddErrors \cup {NoErr} :
                 calls' = [calls EXCEPT !.add = Append(@,
                              [call |-> call, err |-> e])]
       ELSE /\ ReturnResult
            /\ UNCHANGED calls
    /\ UNCHANGED <<cfgVars, cancelled, tracks, pipeVars, aggVars, collected>>

\* if len(matchedIDs) > 0 { dest.AddTracksToPlaylist(...) }, then the return
AddTracks ==
    /\ pc = "add"
    /\ IF Len(matchedIDs) > 0
       THEN LET call == [prov |-> req.DestProvider,
                         playlist |-> destPlaylistID,
                         ids |-> matchedIDs] IN
            \/ \E e \in AddErrors :
                 /\ ReturnError(Errorf(
                        "failed to add tracks to destination playlist", e))
                 /\ calls' = [calls EXCEPT !.add = Append(@,
                                 [call |-> call, err |-> e])]
            \/ /\ ReturnResult
               /\ calls' = [calls EXCEPT !.add = Append(@,
                               [call |-> call, err |-> NoErr])]
       ELSE /\ ReturnResult
            /\ UNCHANGED calls
    /\ UNCHANGED <<cfgVars, cancelled, tracks, pipeVars, aggVars, collected>>

\* every step of the request itself; Cancel is the caller's
Progress ==
    \/ ResolveSource
    \/ ResolveDest
    \/ FetchTracks
    \/ LaunchWorker
    \/ Produce
    \/ CloseTrackCh
    \/ SpawnWaiter
    \/ WaiterClose
    \/ Collect
    \/ \E w \in WorkerIds : WorkerRecv(w)
    \/ \E w \in WorkerIds : WorkerSelect(w)
    \/ \E w \in WorkerIds : WorkerSearchReturn(w)
    \/ \E w \in WorkerIds : WorkerSend(w)
    \/ Aggregate
    \/ CreatePlaylist
    \/ AddTracks

Next ==
    \/ Cancel
    \/ Progress

Spec == Init /\ [][Next]_vars

\* The Go scheduler runs a goroutine that can take a step, and every provider
\* call returns: some enabled step of the request is eventually taken.
FairSpec == Spec /\ WF_vars(Progress)

\* dest.SearchTrack panics inside the worker goroutine: no frame of the
\* goroutine recovers, so the Go runtime ends the process - the request, the
\* sibling workers and the waiter stop where they are; nothing is deposited
WorkerSearchPanic(w) ==
    /\ wpc[w] = "search"
    /\ wpc' = [v \in WorkerIds |->
                 IF v = w THEN "panicked"
                 ELSE IF wpc[v] \in {"idle", "exited"} THEN wpc[v] ELSE "dead"]
    /\ waiter' = IF waiter = "wait" THEN "dead" ELSE waiter
    /\ pc' = "crashed"
    /\ UNCHANGED <<cfgVars, cancelled, tracks, trackCh, trackClosed, resultCh,
                   resultClosed, wg, launched, sent, witem, wres, results,
                   aggVars, ret, calls, collected>>

\* the request with a destination provider whose SearchTrack may panic
PanicNext ==
    \/ Next
    \/ \E w \in WorkerIds : WorkerSearchPanic(w)

PanicSpec == Init /\ [][PanicNext]_vars /\ WF_vars(Progress)

\* ------------------------------------------ two requests on one Service
\* variant of ChanOf in which every call uses the same pair of channels
SharedChan(r) == 1

\* trackCh := make(...); resultCh := make(...): the channels are locals of
\* searchTracksParallel, one pair per call
ChanOf(r) == r

\* the destination of these requests answers deterministically: a candidate
\* with score 90 for the tracks a and c, nothing for b and d
IsoSearch(t) ==
    IF t.Name \in {"a", "c"}
    THEN [track |-> Ptr(Candidate(t)), score |-> 90, err |-> NoErr]
    ELSE [track |-> Nil, score |-> 0, err |-> NoErr]
IsoPlaylistID(r) == IF r = 1 THEN "pl-1" ELSE "pl-2"
IsoLen(r) == Cardinality(DOMAIN IsoTracks[r])

IsoFrame == UNCHANGED <<reqVars, rg, sc, hs, ad>>

\* for i := 0; i < s.workers; i++ { wg.Add(1); go func() {...}() }
IsoLaunchWorker(r) ==
    LET q == iso.rq[r] IN
    /\ q.pc = "launch"
    /\ q.launched < workers
    /\ iso' = [iso EXCEPT !.rq[r] =
                 [q EXCEPT !.wg = @ + 1,
                           !.wpc[q.launched] = "recv",
                           !.launched = @ + 1,
                           !.pc = IF q.launched + 1 < workers
                                  THEN "launch" ELSE "produce"]]
    /\ IsoFrame

\* trackCh <- {index: i, track: track}
IsoProduce(r) ==
    LET q == iso.rq[r]
        c == iso.ch[ChanOf(r)] IN
    /\ q.pc = "produce"
    /\ q.sent < IsoLen(r)
    /\ Len(c.trackCh) < ChanCap(IsoLen(r))
    /\ iso' = [iso EXCEPT
                 !.rq[r].sent = @ + 1,
                 !.ch[ChanOf(r)].trackCh =
                     Append(@, [index |-> q.sent,
                                track |-> IsoTracks[r][q.sent]])]
    /\ IsoFrame

\* close(trackCh); go func() { wg.Wait(); close(resultCh) }(); make(results)
IsoCloseTrackCh(r) ==
    LET q == iso.rq[r] IN
    /\ q.pc = "produce"
    /\ q.sent >= IsoLen(r)
    /\ iso' = [iso EXCEPT
                 !.ch[ChanOf(r)].trackClosed = TRUE,
                 !.rq[r] = [q EXCEPT
                              !.waiter = "wait",
                              !.results = [i \in DOMAIN IsoTracks[r] |->
                                             ZeroResult],
                              !.pc = "collect"]]
    /\ IsoFrame

\* wg.Wait() returns; close(resultCh)
IsoWaiterClose(r) ==
    LET q == iso.rq[r] IN
    /\ q.waiter = "wait"
    /\ q.wg = 0
    /\ iso' = [iso EXCEPT !.ch[ChanOf(r)].resultClosed = TRUE,
                          !.rq[r].waiter = "done"]
    /\ IsoFrame

\* for item := range trackCh: the next item, or the end of the loop
IsoWorkerRecv(r, w) ==
    LET q == iso.rq[r]
        c == iso.ch[ChanOf(r)] IN
    /\ q.wpc[w] = "recv"
    /\ IF Len(c.trackCh) > 0
       THEN iso' = [iso EXCEPT
                      !.rq[r].witem[w] = Head(c.trackCh),
                      !.rq[r].wpc[w] = "search",
                      !.ch[ChanOf(r)].trackCh = Tail(@)]
       ELSE /\ c.trackClosed
            /\ iso' = [iso EXCEPT !.rq[r].wg = @ - 1,
                                  !.rq[r].wpc[w] = "exited"]
    /\ IsoFrame

\* dest.SearchTrack(ctx, token, item.track) returns and is classified
IsoWorkerSearchReturn(r, w) ==
    LET q == iso.rq[r] IN
    /\ q.wpc[w] = "search"
    /\ iso' = [iso EXCEPT
                 !.rq[r].wres[w] =
                     [index |-> q.witem[w].index,
                      result |-> Classify(q.witem[w].track,
                                          IsoSearch(q.witem[w].track))],
                 !.rq[r].witem[w] = NoItem,
                 !.rq[r].wpc[w] = "send"]
    /\ IsoFrame

\* resultCh <- indexedResult{...}
IsoWorkerSend(r, w) ==
    LET q == iso.rq[r]
        c == iso.ch[ChanOf(r)] IN
    /\ q.wpc[w] = "send"
    /\ ~c.resultClosed
    /\ Len(c.resultCh) < ChanCap(IsoLen(r))
    /\ iso' = [iso EXCEPT
                 !.ch[ChanOf(r)].resultCh = Append(@, q.wres[w]),
                 !.rq[r].wres[w] = NoPending,
                 !.rq[r].wpc[w] = "recv"]
    /\ IsoFrame

\* what MigratePlaylist returns for the collected results res, with a
\* destination that creates the playlist and accepts the tracks
IsoResult(r, res) ==
    LET a == AggregateFrom(res, 0, [ids |-> <<>>, matched |-> 0, failed |-> 0])
    IN [result |-> Ptr([SourcePlaylist |-> r,
                        DestPlaylistID |-> IsoPlaylistID(r),
                        TotalTracks |-> IsoLen(r),
                        MatchedTracks |-> a.matched,
                        FailedTracks |-> a.failed,
                        TrackResults |-> res]),
        err |-> NoErr]

\* for ir := range resultCh { results[ir.index] = ir.result }, then Steps 3
\* to 5 and the return
IsoCollect(r) ==
    LET q == iso.rq[r]
        c == iso.ch[ChanOf(r)] IN
    /\ q.pc = "collect"
    /\ IF Len(c.resultCh) > 0
       THEN iso' = [iso EXCEPT
                      !.rq[r].results = StoreResult(@, Head(c.resultCh)),
                      !.ch[ChanOf(r)].resultCh = Tail(@)]
       ELSE /\ c.resultClosed
            /\ iso' = [iso EXCEPT !.rq[r].ret = IsoResult(r, q.results),
                                  !.rq[r].pc = "done"]
    /\ IsoFrame

IsoNext ==
    \E r \in IsoRequests :
       \/ IsoLaunchWorker(r)
       \/ IsoProduce(r)
       \/ IsoCloseTrackCh(r)
       \/ IsoWaiterClose(r)
       \/ IsoCollect(r)
       \/ \E w \in WorkerIds : IsoWorkerRecv(r, w)
       \/ \E w \in WorkerIds : IsoWorkerSearchReturn(r, w)
       \/ \E w \in WorkerIds : IsoWorkerSend(r, w)

\* both calls are made on a Service with one or two workers
IsoInit ==
    /\ InitRequest
    /\ registry = ProviderNames
    /\ cfgWorkers \in {1, 2}
    /\ iso = IsoStart
    /\ rg = Idle /\ sc = Idle /\ hs = Idle /\ ad = Idle
IsoSpec == IsoInit /\ [][IsoNext]_vars

\* ------------------------------------------------- the ProviderRegistry
\* Callers of one registry: each is idle or inside Register, Get or Available.
\* A provider is a name (what Name() returns) and an identity.
RegThreads == {"t1", "t2", "t3"}
RegProviders == [name : ProviderNames, inst : {"p", "q"}]
RegLookups == ProviderNames \cup {"deezer"}

\* The Go map is modelled as its set of entries.
\* variant of MapAssign that leaves an existing entry as it is
MapAssignKeepOld(m, k, v) ==
    IF \E e \in m : e.key = k THEN m ELSE m \cup {[key |-> k, val |-> v]}

\* variant of MapAssign that adds the entry next to an existing one
MapAssignAdd(m, k, v) == m \cup {[key |-> k, val |-> v]}

\* m[k] = v
MapAssign(m, k, v) == {e \in m : e.key # k} \cup {[key |-> k, val |-> v]}

\* provider, ok := r.providers[name] and the two returns of Get
MapLookup(m, name) ==
    IF \E e \in m : e.key = name
    THEN [prov |-> Ptr((CHOOSE e \in m : e.key = name).val), err |-> NoErr]
    ELSE [prov |-> Nil, err |-> Errorf("unknown provider", <<name>>)]

\* for name := range r.providers: the entries in any order
MapRange(m) ==
    {o \in [1 .. Cardinality(m) -> m] :
        \A i, j \in DOMAIN o : i # j => o[i] # o[j]}

\* what a read of the map yields while an assignment to it is under way:
\* the old contents or a runtime fault
Fault == [fault |-> "concurrent map read and map write"]

RegNoCall == [pc |-> "idle", op |-> "", arg |-> "", out |-> <<>>]
RegStart ==
    [providers |-> {}, writing |-> FALSE, wr |-> {}, rd |-> {},
     th |-> [t \in RegThreads |-> RegNoCall], log |-> <<>>]

RegFrame == UNCHANGED <<reqVars, iso, sc, hs, ad>>

\* Register calls that were made and have not written yet
RegPending == {t \in RegThreads : rg.th[t].pc \in {"lock", "write", "writing"}}

\* a caller enters Register(provider)
RegCallRegister(t) ==
    /\ rg.th[t].pc = "idle"
    /\ Len(rg.log) + Cardinality(RegPending) < MaxRegisters
    /\ \E p \in RegProviders :
         rg' = [rg EXCEPT !.th[t] =
                  [pc |-> "lock", op |-> "Register", arg |-> p, out |-> <<>>]]
    /\ RegFrame

\* a caller enters Get(name)
RegCallGet(t) ==
    /\ rg.th[t].pc = "idle"
    /\ \E n \in RegLookups :
         rg' = [rg EXCEPT !.th[t] =
                  [pc |-> "rlock", op |-> "Get", arg |-> n, out |-> <<>>]]
    /\ RegFrame

\* a caller enters Available()
RegCallAvailable(t) ==
    /\ rg.th[t].pc = "idle"
    /\ rg' = [rg EXCEPT !.th[t] =
                [pc |-> "rlock", op |-> "Available", arg |-> "", out |-> <<>>]]
    /\ RegFrame

\* r.mu.Lock(): waits until no reader and no writer holds mu
RegLock(t) ==
    /\ rg.th[t].pc = "lock"
    /\ rg.wr = {} /\ rg.rd = {}
    /\ rg' = [rg EXCEPT !.wr = {t}, !.th[t].pc = "write"]
    /\ RegFrame

\* r.providers[provider.Name()] = provider begins: the map is being changed
RegWriteBegin(t) ==
    /\ rg.th[t].pc = "write"
    /\ rg' = [rg EXCEPT !.writing = TRUE, !.th[t].pc = "writing"]
    /\ RegFrame

\* the assignment is complete
RegWriteEnd(t) ==
    /\ rg.th[t].pc = "writing"
    /\ LET p == rg.th[t].arg IN
       rg' = [rg EXCEPT
                !.providers = MapAssign(@, p.name, p),
                !.writing = FALSE,
                !.log = Append(@, [key |-> p.name, val |-> p]),
                !.th[t].pc = "unlock"]
    /\ RegFrame

\* defer r.mu.Unlock(), and the return of Register
RegUnlock(t) ==
    /\ rg.th[t].pc = "unlock"
    /\ rg' = [rg EXCEPT !.wr = @ \ {t}, !.th[t] = RegNoCall]
    /\ RegFrame

\* variant of RegRLock that does not wait for the writer
RegRLockNoWait(t) ==
    /\ rg.th[t].pc = "rlock"
    /\ rg' = [rg EXCEPT !.rd = @ \cup {t}, !.th[t].pc = "read"]
    /\ RegFrame

\* r.mu.RLock(): waits until no writer holds mu
RegRLock(t) ==
    /\ rg.th[t].pc = "rlock"
    /\ rg.wr = {}
    /\ rg' = [rg EXCEPT !.rd = @ \cup {t}, !.th[t].pc = "read"]
    /\ RegFrame

\* the body of Get or Available: the lookup, or the loop over the map
RegRead(t) ==
    /\ rg.th[t].pc = "read"
    /\ \E o \in (IF rg.th[t].op = "Get"
                 THEN {MapLookup(rg.providers, rg.th[t].arg)}
                 ELSE {[names |-> [i \in DOMAIN r |-> r[i].key]] :
                          r \in MapRange(rg.providers)})
                \cup (IF rg.writing THEN {Fault} ELSE {}) :
         rg' = [rg EXCEPT !.th[t].out = o, !.th[t].pc = "runlock"]
    /\ RegFrame

\* defer r.mu.RUnlock(), and the return of Get or Available
RegRUnlock(t) ==
    /\ rg.th[t].pc = "runlock"
    /\ rg' = [rg EXCEPT !.rd = @ \ {t}, !.th[t] = RegNoCall]
    /\ RegFrame

RegNext ==
    \E t \in RegThreads :
       \/ RegCallRegister(t)
       \/ RegCallGet(t)
       \/ RegCallAvailable(t)
       \/ RegLock(t)
       \/ RegWriteBegin(t)
       \/ RegWriteEnd(t)
       \/ RegUnlock(t)
       \/ RegRLock(t)
       \/ RegRead(t)
       \/ RegRUnlock(t)

\* NewProviderRegistry(): an empty map, nobody inside
RegInit == Parked /\ rg = RegStart /\ sc = Idle /\ hs = Idle /\ ad = Idle
RegSpec == RegInit /\ [][RegNext]_vars

\* ------------------------------------------------------ the two scorers
\* A Go string is the sequence of its characters.
Lower == [A |-> "a", B |-> "b", C |-> "c", I |-> "i", L |-> "l", R |-> "r"]
\* strings.ToLower
ToLower(str) ==
    [i \in DOMAIN str |-> IF str[i] \in DOMAIN Lower THEN Lower[str[i]] ELSE str[i]]
\* strings.EqualFold
EqualFold(a, b) == ToLower(a) = ToLower(b)
\* variant of Contains in which the empty string is contained in nothing
ContainsNonEmpty(str, sub) ==
    /\ sub # <<>>
    /\ \E i \in 0 .. (Len(str) - Len(sub)) :
         SubSeq(str, i + 1, i + Len(sub)) = sub

\* strings.Contains
Contains(str, sub) ==
    \E i \in 0 .. (Len(str) - Len(sub)) : SubSeq(str, i + 1, i + Len(sub)) = sub
\* strings.Fields: the maximal runs of characters other than the space
RECURSIVE FieldsFrom(_, _, _)
FieldsFrom(str, i, word) ==
    IF i > Len(str)
    THEN IF word = <<>> THEN <<>> ELSE <<word>>
    ELSE IF str[i] = " "
    THEN (IF word = <<>> THEN <<>> ELSE <<word>>) \o FieldsFrom(str, i + 1, <<>>)
    ELSE FieldsFrom(str, i + 1, Append(word, str[i]))
Fields(str) == FieldsFrom(str, 1, <<>>)

\* the texts the tracks are drawn from
SourceNameTexts ==
    {<<>>, <<"a", "b", "c">>, <<"a", "b">>,
     <<"a", "b", " ", "c", "d", "e">>,
     <<"a", "b", "c", " ", "c", "d", "e">>}
MatchedNameTexts ==
    {<<"a", "b", "c">>, <<"A", "B", "C">>, <<"x", "a", "b", "c">>,
     <<"c", "d", "e">>, <<"a", "b", " ", "c", "d", "e">>,
     <<"r", " ", "a", "b", "c">>, <<"z", "z">>}
SourceArtistTexts == {<<>>, <<"r">>, <<"R">>}
MatchedArtistTexts == {<<>>, <<"r">>, <<"r", "s">>, <<"q">>}
SourceAlbumTexts == {<<>>, <<"l">>}
MatchedAlbumTexts == {<<>>, <<"l">>, <<"L">>, <<"k">>}
SourceISRCTexts == {<<>>, <<"i">>, <<"I">>}
MatchedISRCTexts == {<<>>, <<"i">>, <<"j">>}
SourceTracks ==
    [Name : SourceNameTexts, Artist : SourceArtistTexts,
     Album : SourceAlbumTexts, ISRC : SourceISRCTexts]
MatchedTracks ==
    [Name : MatchedNameTexts, Artist : MatchedArtistTexts,
     Album : MatchedAlbumTexts, ISRC : MatchedISRCTexts]

\* the weights, in hundredths
SpotifyNameExact == 50
SpotifyNamePartial == 30
SpotifyArtistExact == 35
SpotifyArtistPartial == 20
SpotifyAlbumExact == 15
YouTubeName == 50
YouTubeArtist == 40
YouTubeExactTitle == 10
FullScore == 100
\* a word counts when len(word) > 2
MinWordLen == 2

\* if score > 1.0 { score = 1.0 }
Clamp(score) == IF score > FullScore THEN FullScore ELSE score

\* variant of SpotifyConfidence that awards the exact and the partial bonus
\* of a signal together and returns the sum as it is
SpotifyConfidenceStacked(source, candidate) ==
    IF source.ISRC # <<>> /\ candidate.ISRC # <<>>
       /\ EqualFold(source.ISRC, candidate.ISRC)
    THEN FullScore
    ELSE (IF EqualFold(source.Name, candidate.Name)
          THEN SpotifyNameExact ELSE 0)
         + (IF Contains(ToLower(candidate.Name), ToLower(source.Name))
            THEN SpotifyNamePartial ELSE 0)
         + (IF EqualFold(source.Artist, candidate.Artist)
            THEN SpotifyArtistExact ELSE 0)
         + (IF Contains(ToLower(candidate.Artist), ToLower(source.Artist))
            THEN SpotifyArtistPartial ELSE 0)
         + (IF source.Album # <<>> /\ EqualFold(source.Album, candidate.Album)
            THEN SpotifyAlbumExact ELSE 0)

\* variant of SpotifyConfidence that compares the albums even when the source
\* has none
SpotifyConfidenceAnyAlbum(source, candidate) ==
    IF source.ISRC # <<>> /\ candidate.ISRC # <<>>
       /\ EqualFold(source.ISRC, candidate.ISRC)
    THEN FullScore
    ELSE Clamp(
           (IF EqualFold(source.Name, candidate.Name)
            THEN SpotifyNameExact
            ELSE IF Contains(ToLower(candidate.Name), ToLower(source.Name))
            THEN SpotifyNamePartial ELSE 0)
           + (IF EqualFold(source.Artist, candidate.Artist)
              THEN SpotifyArtistExact
              ELSE IF Contains(ToLower(candidate.Artist), ToLower(source.Artist))
              THEN SpotifyArtistPartial ELSE 0)
           + (IF EqualFold(source.Album, candidate.Album)
              THEN SpotifyAlbumExact ELSE 0))

\* calculateConfidence of the Spotify adapter
SpotifyConfidence(source, candidate) ==
    IF source.ISRC # <<>> /\ candidate.ISRC # <<>>
       /\ EqualFold(source.ISRC, candidate.ISRC)
    THEN FullScore
    ELSE Clamp(
           (IF EqualFold(source.Name, candidate.Name)
            THEN SpotifyNameExact
            ELSE IF Contains(ToLower(candidate.Name), ToLower(source.Name))
            THEN SpotifyNamePartial ELSE 0)
           + (IF EqualFold(source.Artist, candidate.Artist)
              THEN SpotifyArtistExact
              ELSE IF Contains(ToLower(candidate.Artist), ToLower(source.Artist))
              THEN SpotifyArtistPartial ELSE 0)
           + (IF source.Album # <<>> /\ EqualFold(source.Album, candidate.Album)
              THEN SpotifyAlbumExact ELSE 0))

\* for _, word := range sourceWords { if len(word) > 2 && Contains {...} }
RECURSIVE MatchCount(_, _)
MatchCount(words, title) ==
    IF words = <<>> THEN 0
    ELSE (IF Len(Head(words)) > MinWordLen /\ Contains(title, Head(words))
          THEN 1 ELSE 0) + MatchCount(Tail(words), title)

\* variant of YouTubeWordOverlap that divides by the number of counted words
YouTubeWordOverlapKept(sourceName, matchedTitle) ==
    LET sourceWords == Fields(sourceName)
        kept == Cardinality({i \in DOMAIN sourceWords :
                               Len(sourceWords[i]) > MinWordLen}) IN
    IF kept > 0
    THEN (YouTubeName * MatchCount(sourceWords, matchedTitle)) \div kept
    ELSE 0

\* the else branch of the name comparison: 0.5 * matchCount / len(sourceWords);
\* the source names above have at most two words, so the quotient is exact
YouTubeWordOverlap(sourceName, matchedTitle) ==
    LET sourceWords == Fields(sourceName) IN
    IF Len(sourceWords) > 0
    THEN (YouTubeName * MatchCount(sourceWords, matchedTitle))
            \div Len(sourceWords)
    ELSE 0

\* calculateConfidence of the YouTube adapter
YouTubeConfidence(source, candidate) ==
    LET sourceName == ToLower(source.Name)
        matchedTitle == ToLower(candidate.Name)
        sourceArtist == ToLower(source.Artist)
        matchedArtist == ToLower(candidate.Artist) IN
    Clamp(
      (IF Contains(matchedTitle, sourceName)
       THEN YouTubeName
       ELSE YouTubeWordOverlap(sourceName, matchedTitle))
      + (IF Contains(matchedArtist, sourceArtist)
            \/ Contains(matchedTitle, sourceArtist)
         THEN YouTubeArtist ELSE 0)
      + (IF sourceName = matchedTitle THEN YouTubeExactTitle ELSE 0))

ScoreFrame == UNCHANGED <<reqVars, iso, rg, hs, ad>>

\* the Spotify adapter scores the pair
ScoreSpotify ==
    /\ sc.spotify = Nil
    /\ sc' = [sc EXCEPT !.spotify = Ptr(SpotifyConfidence(sc.source, sc.candidate))]
    /\ ScoreFrame

\* the YouTube adapter scores the pair
ScoreYouTube ==
    /\ sc.youtube = Nil
    /\ sc' = [sc EXCEPT !.youtube = Ptr(YouTubeConfidence(sc.source, sc.candidate))]
    /\ ScoreFrame

ScoreNext == ScoreSpotify \/ ScoreYouTube

\* any source track with any candidate, not scored yet
ScoreInit ==
    /\ Parked
    /\ rg = Idle /\ hs = Idle /\ ad = Idle
    /\ sc \in [source : SourceTracks, candidate : MatchedTracks,
               spotify : {Nil}, youtube : {Nil}]
ScoreSpec == ScoreInit /\ [][ScoreNext]_vars

\* ------------------------------------------------------ the HTTP handler
StatusOK == 200
StatusBadRequest == 400
StatusUnauthorized == 401
StatusInternalServerError == 500
\* len("Bearer ")
BearerLen == 7
Bearer == <<"B", "e", "a", "r", "e", "r", " ">>

\* the JSON names of the fields of MigrationRequest
RequestFields ==
    {"source_provider", "source_token", "dest_provider", "dest_token",
     "playlist_id"}

\* variant of RequiredFields in which the tokens are optional
RequiredFieldsNoTokens == {"source_provider", "dest_provider", "playlist_id"}

\* the fields tagged binding:"required"
RequiredFields ==
    {"source_provider", "source_token", "dest_provider", "dest_token",
     "playlist_id"}

\* a body is malformed, or a JSON object in which each field is absent (Nil)
\* or present with an empty or a non-empty string
Bodies ==
    {[wellformed |-> FALSE, fields |-> [f \in RequestFields |-> Nil]]}
    \cup {[wellformed |-> TRUE, fields |-> fs] :
            fs \in [RequestFields -> {Nil, Ptr(""), Ptr("v")}]}
\* the Authorization headers: none, a bearer token, the bare scheme, a bare token
AuthHeaders == {<<>>, Bearer \o <<"t">>, Bearer, <<"t">>}
HttpRequests ==
    {[route |-> "GET /api/v1/playlists", provider |-> p, auth |-> a,
      body |-> Nil] : p \in {"", "spotify"}, a \in AuthHeaders}
    \cup {[route |-> "POST /api/v1/migrate", provider |-> "", auth |-> <<>>,
           body |-> Ptr(b)] : b \in Bodies}

\* c.ShouldBindJSON(&req): decode the body into the struct, an absent field
\* keeping the zero value, then check the required fields for a non-zero value
ShouldBindJSON(body) ==
    LET decoded == [f \in RequestFields |->
                      IF body.fields[f] = Nil THEN "" ELSE body.fields[f][1]]
    IN IF ~body.wellformed
       THEN [req |-> decoded, err |-> <<"invalid character">>]
       ELSE IF \E f \in RequiredFields : decoded[f] = ""
       THEN [req |-> decoded, err |-> <<"failed on the 'required' tag">>]
       ELSE [req |-> decoded, err |-> NoErr]

\* extractToken
extractToken(auth) ==
    IF Len(auth) > BearerLen /\ SubSeq(auth, 1, BearerLen) = Bearer
    THEN SubSeq(auth, BearerLen + 1, Len(auth))
    ELSE auth

\* c.JSON(status, ...)
Respond(status, kind) == Ptr([status |-> status, error |-> kind])
ServiceErrors == {NoErr, <<"service failed">>}

HttpFrame == UNCHANGED <<reqVars, iso, rg, sc, ad>>

\* variant of HandleListPlaylists that looks at the token first
HandleListPlaylistsTokenFirst ==
    /\ hs.resp = Nil
    /\ hs.req.route = "GET /api/v1/playlists"
    /\ LET provider == hs.req.provider
           token == extractToken(hs.req.auth) IN
       IF token = <<>>
       THEN hs' = [hs EXCEPT !.resp = Respond(StatusUnauthorized, "unauthorized")]
       ELSE IF provider = ""
       THEN hs' = [hs EXCEPT !.resp = Respond(StatusBadRequest, "bad_request")]
       ELSE \E e \in ServiceErrors :
              hs' = [hs EXCEPT
                       !.svc = Append(@, [op |-> "ListPlaylists",
                                          provider |-> provider,
                                          token |-> token, err |-> e]),
                       !.resp = IF e # NoErr
                                THEN Respond(StatusInternalServerError,
                                             "internal_error")
                                ELSE Respond(StatusOK, "")]
    /\ HttpFrame

\* Handler.ListPlaylists
HandleListPlaylists ==
    /\ hs.resp = Nil
    /\ hs.req.route = "GET /api/v1/playlists"
    /\ LET provider == hs.req.provider
           token == extractToken(hs.req.auth) IN
       IF provider = ""
       THEN hs' = [hs EXCEPT !.resp = Respond(StatusBadRequest, "bad_request")]
       ELSE IF token = <<>>
       THEN hs' = [hs EXCEPT !.resp = Respond(StatusUnauthorized, "unauthorized")]
       ELSE \E e \in ServiceErrors :
              hs' = [hs EXCEPT
                       !.svc = Append(@, [op |-> "ListPlaylists",
                                          provider |-> provider,
                                          token |-> token, err |-> e]),
                       !.resp = IF e # NoErr
                                THEN Respond(StatusInternalServerError,
                                             "internal_error")
                                ELSE Respond(StatusOK, "")]
    /\ HttpFrame

\* Handler.MigratePlaylist
HandleMigratePlaylist ==
    /\ hs.resp = Nil
    /\ hs.req.route = "POST /api/v1/migrate"
    /\ LET bound == ShouldBindJSON(hs.req.body[1]) IN
       IF bound.err # NoErr
       THEN hs' = [hs EXCEPT !.resp = Respond(StatusBadRequest, "bad_request")]
       ELSE \E e \in ServiceErrors :
              hs' = [hs EXCEPT
                       !.svc = Append(@, [op |-> "MigratePlaylist",
                                          req |-> bound.req, err |-> e]),
                       !.resp = IF e # NoErr
                                THEN Respond(StatusInternalServerError,
                                             "migration_failed")
                                ELSE Respond(StatusOK, "")]
    /\ HttpFrame

HttpNext == HandleListPlaylists \/ HandleMigratePlaylist

\* one request has reached the router and is not answered yet
HttpInit ==
    /\ Parked
    /\ rg = Idle /\ sc = Idle /\ ad = Idle
    /\ hs \in [req : HttpRequests, resp : {Nil}, svc : {<<>>}]
HttpSpec == HttpInit /\ [][HttpNext]_vars

\* ------------------------------------- the adapters' GetPlaylistTracks
\* A title is the sequence of its words; "-" stands for the separator " - "
\* and a suffix such as "(Official Video)" is one word.
TitleSuffixes ==
    <<"(Official Video)", "(Official Music Video)", "(Official Audio)",
      "(Lyric Video)", "(Lyrics)", "(Audio)", "[Official Video]",
      "[Official Music Video]", "[Official Audio]", "(HD)", "(HQ)">>

\* strings.Replace(cleaned, suffix, "", 1): the first occurrence goes
RemoveFirst(title, word) ==
    IF \E i \in DOMAIN title : title[i] = word
    THEN LET i == CHOOSE k \in DOMAIN title :
                     title[k] = word /\ \A j \in DOMAIN title :
                                           title[j] = word => k <= j
         IN SubSeq(title, 1, i - 1) \o SubSeq(title, i + 1, Len(title))
    ELSE title
RECURSIVE RemoveSuffixes(_, _)
RemoveSuffixes(title, k) ==
    IF k > Len(TitleSuffixes) THEN title
    ELSE RemoveSuffixes(RemoveFirst(title, TitleSuffixes[k]), k + 1)

\* parseVideoTitle: "Artist - Track" gives (Track, Artist), else (title, "")
parseVideoTitle(title) ==
    LET cleaned == RemoveSuffixes(title, 1) IN
    IF \E i \in DOMAIN cleaned : cleaned[i] = "-"
    THEN LET i == CHOOSE k \in DOMAIN cleaned :
                     cleaned[k] = "-" /\ \A j \in DOMAIN cleaned :
                                            cleaned[j] = "-" => k <= j
         IN [name |-> SubSeq(cleaned, i + 1, Len(cleaned)),
             artist |-> SubSeq(cleaned, 1, i - 1)]
    ELSE [name |-> cleaned, artist |-> <<>>]

\* the entries a page may carry: a local entry without ID, and two with one
PlaylistEntries ==
    {[id |-> "", title |-> <<"song">>],
     [id |-> "v1", title |-> <<"song">>],
     [id |-> "v2", title |-> <<"artist", "-", "tune", "(Official Video)">>]}

\* the domain.Track an adapter builds from an entry
EntryTrack(provider, entry) ==
    IF provider = "spotify"
    THEN Track(entry.title, entry.id)
    ELSE LET parsed == parseVideoTitle(entry.title) IN
         Track(IF parsed.name = <<>> THEN entry.title ELSE parsed.name,
               entry.id)

\* for _, item := range resp.Items { if ID == "" { continue }; append }
RECURSIVE PageTracks(_, _)
PageTracks(provider, items) ==
    IF items = <<>> THEN <<>>
    ELSE (IF Head(items).id = "" THEN <<>>
          ELSE <<EntryTrack(provider, Head(items))>>)
         \o PageTracks(provider, Tail(items))

\* a page of the remote: its entries, or the way its request fails
ItemLists ==
    UNION {[1 .. n -> PlaylistEntries] : n \in 0 .. MaxPerPage}
RemotePages ==
    {[fail |-> "", items |-> is] : is \in ItemLists}
    \cup {[fail |-> f, items |-> <<>>] : f \in {"request", "parse"}}
RemotePlaylists ==
    UNION {[1 .. n -> RemotePages] : n \in 1 .. MaxPages}

\* the messages of the two adapters
ListingError(provider, fail) ==
    IF provider = "spotify"
    THEN (IF fail = "request"
          THEN Errorf("spotify: failed to get playlist tracks", <<"status">>)
          ELSE Errorf("spotify: failed to parse tracks response", <<"json">>))
    ELSE (IF fail = "request"
          THEN Errorf("youtube: failed to get playlist items", <<"status">>)
          ELSE Errorf("youtube: failed to parse playlist items response",
                      <<"json">>))

ListFrame == UNCHANGED <<reqVars, iso, rg, sc, hs>>

\* variant of FetchPage that returns what it has when a page fails
FetchPagePartial ==
    /\ ad.ret = Nil
    /\ LET page == ad.pages[ad.next] IN
       IF page.fail # ""
       THEN ad' = [ad EXCEPT
                     !.fetched = @ + 1,
                     !.ret = Ptr([tracks |-> ad.tracks,
                                  err |-> ListingError(ad.provider, page.fail)])]
       ELSE LET all == ad.tracks \o PageTracks(ad.provider, page.items) IN
            IF ad.next = Len(ad.pages)
            THEN ad' = [ad EXCEPT !.fetched = @ + 1, !.tracks = all,
                                  !.ret = Ptr([tracks |-> all, err |-> NoErr])]
            ELSE ad' = [ad EXCEPT !.fetched = @ + 1, !.tracks = all,
                                  !.next = @ + 1]
    /\ ListFrame

\* one iteration of the loop of GetPlaylistTracks: the page is requested and
\* parsed, its entries are appended, and the next link or token is followed
FetchPage ==
    /\ ad.ret = Nil
    /\ LET page == ad.pages[ad.next] IN
       IF page.fail # ""
       THEN ad' = [ad EXCEPT
                     !.fetched = @ + 1,
                     !.ret = Ptr([tracks |-> <<>>,
                                  err |-> ListingError(ad.provider, page.fail)])]
       ELSE LET all == ad.tracks \o PageTracks(ad.provider, page.items) IN
            IF ad.next = Len(ad.pages)
            THEN ad' = [ad EXCEPT !.fetched = @ + 1, !.tracks = all,
                                  !.ret = Ptr([tracks |-> all, err |-> NoErr])]
            ELSE ad' = [ad EXCEPT !.fetched = @ + 1, !.tracks = all,
                                  !.next = @ + 1]
    /\ ListFrame

ListNext == FetchPage

\* GetPlaylistTracks is entered: no track yet, the first page is due
ListInit ==
    /\ Parked
    /\ rg = Idle /\ sc = Idle /\ hs = Idle
    /\ ad \in [provider : ProviderNames, pages : RemotePlaylists, next : {1},
               fetched : {0}, tracks : {<<>>}, ret : {Nil}]
ListSpec == ListInit /\ [][ListNext]_vars

\* ----------------------------------- the adapters' AddTracksToPlaylist
maxBatch == 100         \* spotify: URIs per request
PerVideo == 1           \* youtube: one playlistItems.insert per video

\* the ID lists handed to AddTracksToPlaylist: n distinct IDs
AddLengths == {0, 1, 2, 99, 100, 101, 200, 201}
TrackIDList(n) == [k \in 1 .. n |-> ToString(k)]

\* variant of BatchSize with the Spotify batch for every provider
BatchSizeAlike(provider) == maxBatch

\* the IDs one request carries at most
BatchSize(provider) == IF provider = "spotify" THEN maxBatch ELSE PerVideo

\* what a request carries for an ID: a URI for Spotify, the videoId for YouTube
Payload(provider, id) ==
    IF provider = "spotify" THEN <<"spotify:track", id>> ELSE <<"videoId", id>>

\* the error of AddTracksToPlaylist for a request that failed
AddError(provider, batch) ==
    IF provider = "spotify"
    THEN Errorf("spotify: failed to add tracks to playlist", <<"status">>)
    ELSE Errorf("youtube: failed to add video to playlist",
                <<batch[1], "status">>)

BatchFrame == UNCHANGED <<reqVars, iso, rg, sc, hs>>

\* one iteration of the loop: the IDs trackIDs[i:end] are posted; a request
\* that fails ends the call, and the remote may or may not have applied it
PostBatch ==
    /\ ad.ret = Nil
    /\ ad.i < Len(ad.trackIDs)
    /\ LET n == Len(ad.trackIDs)
           end == IF ad.i + BatchSize(ad.provider) > n THEN n
                  ELSE ad.i + BatchSize(ad.provider)
           batch == SubSeq(ad.trackIDs, ad.i + 1, end)
           body == [k \in 1 .. Len(batch) |-> Payload(ad.provider, batch[k])]
       IN
       \/ ad' = [ad EXCEPT
                   !.requests = Append(@, [playlist |-> ad.playlistID,
                                           body |-> body, ok |-> TRUE]),
                   !.added = @ \o batch,
                   !.i = end]
       \/ \E applied \in BOOLEAN :
            ad' = [ad EXCEPT
                     !.requests = Append(@, [playlist |-> ad.playlistID,
                                             body |-> body, ok |-> FALSE]),
                     !.added = IF applied THEN @ \o batch ELSE @,
                     !.ret = Ptr(AddError(ad.provider, batch))]
    /\ BatchFrame

\* the loop is over: return nil
PostDone ==
    /\ ad.ret = Nil
    /\ ad.i >= Len(ad.trackIDs)
    /\ ad' = [ad EXCEPT !.ret = Ptr(NoErr)]
    /\ BatchFrame

BatchNext == PostBatch \/ PostDone

\* AddTracksToPlaylist is entered
BatchInit ==
    /\ Parked
    /\ rg = Idle /\ sc = Idle /\ hs = Idle
    /\ ad \in [provider : ProviderNames, playlistID : {"pl-1"},
               trackIDs : {TrackIDList(n) : n \in AddLengths},
               i : {0}, requests : {<<>>}, added : {<<>>}, ret : {Nil}]
BatchSpec == BatchInit /\ [][BatchNext]_vars

\* ------------------------------------------- the Spotify SearchTrack
\* the source tracks searched for, with and without ISRC
SearchSources ==
    {t \in SourceTracks :
        /\ t.Name \in {<<"a", "b", "c">>, <<"a", "b">>}
        /\ t.Artist = <<"r">>
        /\ t.Album = <<"l">>
        /\ t.ISRC \in {<<>>, <<"i">>}}
\* the tracks toTrack makes of the items of a search response
SearchCandidates ==
    {t \in MatchedTracks :
        \/ /\ t.Name = <<"x", "a", "b", "c">> /\ t.Artist = <<"r", "s">>
           /\ t.Album = <<"l">> /\ t.ISRC = <<"j">>
        \/ /\ t.Name = <<"z", "z">> /\ t.Artist = <<"q">>
           /\ t.Album = <<>> /\ t.ISRC = <<>>}
\* what the remote answers to a search: a failing request, a body that does
\* not parse, or a list of items, which may be empty
SearchResponses ==
    {[kind |-> k, items |-> <<>>] : k \in {"request", "parse"}}
    \cup {[kind |-> "items", items |-> is] :
            is \in UNION {[1 .. n -> SearchCandidates] : n \in 0 .. 2}}

\* (matched, score, err) of SearchTrack
SearchReturn(track, score, err) ==
    [track |-> track, score |-> score, err |-> err]

SearchFrame == UNCHANGED <<reqVars, iso, rg, sc, hs>>

\* variant of SearchByISRC that returns the failure of the ISRC search
SearchByISRCStrict ==
    /\ ad.pc = "start"
    /\ ad.source.ISRC # <<>>
    /\ LET resp == ad.isrcResp
           query == [kind |-> "isrc", q |-> <<ad.source.ISRC>>] IN
       IF resp.kind = "items" /\ Len(resp.items) > 0
       THEN ad' = [ad EXCEPT
                     !.queries = Append(@, query),
                     !.pc = "done",
                     !.ret = Ptr(SearchReturn(Ptr(resp.items[1]), FullScore,
                                              NoErr))]
       ELSE IF resp.kind # "items"
       THEN ad' = [ad EXCEPT
                     !.queries = Append(@, query),
                     !.pc = "done",
                     !.ret = Ptr(SearchReturn(Nil, 0, <<resp.kind>>))]
       ELSE ad' = [ad EXCEPT !.queries = Append(@, query), !.pc = "name"]
    /\ SearchFrame

\* if track.ISRC != "" { result, score, err := p.searchByISRC(...) }: a
\* candidate is returned with score 1.0, anything else falls through
SearchByISRC ==
    /\ ad.pc = "start"
    /\ ad.source.ISRC # <<>>
    /\ LET resp == ad.isrcResp
           query == [kind |-> "isrc", q |-> <<ad.source.ISRC>>] IN
       IF resp.kind = "items" /\ Len(resp.items) > 0
       THEN ad' = [ad EXCEPT
                     !.queries = Append(@, query),
                     !.pc = "done",
                     !.ret = Ptr(SearchReturn(Ptr(resp.items[1]), FullScore,
                                              NoErr))]
       ELSE ad' = [ad EXCEPT !.queries = Append(@, query), !.pc = "name"]
    /\ SearchFrame

\* the name + artist search and the return of SearchTrack
SearchByName ==
    /\ \/ ad.pc = "name"
       \/ ad.pc = "start" /\ ad.source.ISRC = <<>>
    /\ LET resp == ad.nameResp
           query == [kind |-> "name",
                     q |-> <<ad.source.Name, ad.source.Artist>>]
           out == IF resp.kind = "request"
                  THEN SearchReturn(Nil, 0,
                          Errorf("spotify: search failed", <<"status">>))
                  ELSE IF resp.kind = "parse"
                  THEN SearchReturn(Nil, 0,
                          Errorf("spotify: failed to parse search response",
                                 <<"json">>))
                  ELSE IF Len(resp.items) = 0
                  THEN SearchReturn(Nil, 0, NoErr)
                  ELSE SearchReturn(Ptr(resp.items[1]),
                          SpotifyConfidence(ad.source, resp.items[1]), NoErr)
       IN ad' = [ad EXCEPT !.queries = Append(@, query), !.pc = "done",
                           !.ret = Ptr(out)]
    /\ SearchFrame

SearchNext == SearchByISRC \/ SearchByName

\* SearchTrack is entered; the remote's answers to the two searches are fixed
SearchInit ==
    /\ Parked
    /\ rg = Idle /\ sc = Idle /\ hs = Idle
    /\ ad \in [source : SearchSources, isrcResp : SearchResponses,
               nameResp : SearchResponses, pc : {"start"}, queries : {<<>>},
               ret : {Nil}]
SearchSpec == SearchInit /\ [][SearchNext]_vars

TypeOK ==
    /\ wg \in 0 .. MaxWorkers
    /\ pc \in {"resolveSource", "resolveDest", "fetch", "launch", "produce",
               "spawn", "collect", "aggregate", "create", "add", "done"}

\* ---------------------------------------------------------------- claims
InPipeline == pc \in {"launch", "produce", "spawn", "collect"}
AfterPipeline == pc \in {"aggregate", "create", "add"}
PipelineReturned == AfterPipeline \/ (pc = "done" /\ calls.create # <<>>)
Max1(w) == IF w > 1 THEN w ELSE 1
Started == {w \in WorkerIds : wpc[w] # "idle"}
InFlight == {w \in WorkerIds : wpc[w] = "search"}
Unregistered(name) == name \notin registry
CreateSucceeded == Len(calls.create) = 1 /\ calls.create[1].err = NoErr

C2_ExactlyOnce ==
    /\ \A i \in DOMAIN calls.search : calls.search[i] <= 1
    /\ (PipelineReturned /\ ~cancelled) =>
         \A i \in DOMAIN tracks :
            calls.search[i] = 1 /\ Len(calls.out[i]) = 1
\* more workers than tracks, no cancellation, request finished
C2_Witness ==
    /\ pc = "done"
    /\ ~cancelled
    /\ ret.result # Nil
    /\ workers > NTracks
    /\ \A i \in DOMAIN tracks : calls.search[i] = 1

\* C3: bounded concurrency: a Service built with worker count w keeps
\* max(1, w) workers, never has more than max(1, w) SearchTrack calls in
\* flight, and starts exactly max(1, w) worker tasks.
C3_BoundedConcurrency ==
    /\ workers = Max1(cfgWorkers)
    /\ Cardinality(InFlight) <= Max1(cfgWorkers)
    /\ Cardinality(Started) <= Max1(cfgWorkers)
    /\ (NTracks > 0 /\ pc # "launch") =>
         Cardinality(Started) = Max1(cfgWorkers)
\* a count below 1: the single worker is searching while an item waits
C3_Witness ==
    /\ cfgWorkers < 1
    /\ Cardinality(InFlight) = 1
    /\ trackCh # <<>>

\* C4: count invariant: in every returned MigrationResult
\* MatchedTracks + FailedTracks = TotalTracks = len(TrackResults), with
\* MatchedTracks the number of matched results and FailedTracks the number
\* of not_found or error results.
C4_CountInvariant ==
    ret.result # Nil =>
      LET r == ret.result[1]
          withStatus(S) == {i \in DOMAIN r.TrackResults :
                              r.TrackResults[i].Status \in S}
      IN
      /\ r.MatchedTracks + r.FailedTracks = r.TotalTracks
      /\ r.TotalTracks = Cardinality(DOMAIN r.TrackResults)
      /\ r.MatchedTracks = Cardinality(withStatus({TrackStatusMatched}))
      /\ r.FailedTracks =
           Cardinality(withStatus({TrackStatusNotFound, TrackStatusError}))
\* a result with one matched and one not_found track
C4_Witness ==
    /\ ret.result # Nil
    /\ ret.result[1].MatchedTracks = 1
    /\ ret.result[1].FailedTracks = 1
    /\ \E i \in DOMAIN results : results[i].Status = TrackStatusNotFound

\* C5: provided every SearchTrack call returns, searchTracksParallel
\* terminates: the producer is never blocked on a full work queue, no worker
\* is blocked depositing a result, and when the collector returns every worker
\* has left its loop, both queues are drained and all N results were received.
C5_NeverBlocked ==
    /\ (pc = "produce" /\ sent < NTracks) => Len(trackCh) < NTracks
    /\ \A w \in WorkerIds :
         wpc[w] = "send" => (Len(resultCh) < NTracks /\ ~resultClosed)
    /\ AfterPipeline =>
         /\ \A w \in Started : wpc[w] = "exited"
         /\ trackCh = <<>> /\ resultCh = <<>>
         /\ Len(collected) = NTracks
C5_PipelineTerminates ==
    /\ []C5_NeverBlocked
    /\ InPipeline ~> (pc = "aggregate")
\* one worker has taken two tracks through the pipeline, which returned
C5_Witness ==
    /\ pc = "aggregate"
    /\ workers = 1
    /\ collected = <<0, 1>>

\* C6: per-track failures are contained: when the providers resolve, the
\* source returns at least one track and no call of CreatePlaylist or
\* AddTracksToPlaylist fails, MigratePlaylist returns a result and no error,
\* whatever the searches returned.
C6_TrackFailuresContained ==
    (/\ pc = "done"
     /\ NTracks >= 1
     /\ \A k \in 1 .. Len(calls.create) : calls.create[k].err = NoErr
     /\ \A k \in 1 .. Len(calls.add) : calls.add[k].err = NoErr)
    => (ret.err = NoErr /\ ret.result # Nil)
\* every search of a two-track playlist failed and the request succeeded
C6_Witness ==
    /\ pc = "done"
    /\ ret.err = NoErr
    /\ NTracks = 2
    /\ \A i \in DOMAIN tracks :
         /\ calls.out[i] # <<>>
         /\ calls.out[i][1].err # NoErr
         /\ results[i].Status = TrackStatusError

\* C7: per-track classification: for each search performed, an error gives
\* status error with the error's message (also when a track came with it), no
\* error and no track gives not_found with an empty Error, no error and a
\* track gives matched with that track and the returned score.
C7_Classification ==
    PipelineReturned =>
      \A i \in DOMAIN tracks :
        calls.out[i] # <<>> =>
          LET o == calls.out[i][1]
              r == results[i] IN
          /\ o.err # NoErr =>
               (r.Status = TrackStatusError /\ r.Error = o.err)
          /\ (o.err = NoErr /\ o.track = Nil) =>
               (r.Status = TrackStatusNotFound /\ r.Error = NoErr)
          /\ (o.err = NoErr /\ o.track # Nil) =>
               /\ r.Status = TrackStatusMatched
               /\ r.MatchedTrack = o.track
               /\ r.ConfidenceScore = o.score
               /\ r.Error = NoErr
\* a search returned a track together with an error
C7_Witness ==
    /\ PipelineReturned
    /\ \E i \in DOMAIN tracks :
         /\ calls.out[i] # <<>>
         /\ calls.out[i][1].err # NoErr
         /\ calls.out[i][1].track # Nil
         /\ results[i].Status = TrackStatusError

\* C8: TrackResult invariant: in every TrackResult of the pipeline, status
\* is matched exactly when MatchedTrack is present, a not_found or error
\* result has score 0 and no MatchedTrack, and Error is set only with status
\* error.
ResultWellFormed(r) ==
    /\ r.Status = TrackStatusMatched <=> r.MatchedTrack # Nil
    /\ r.Status \in {TrackStatusNotFound, TrackStatusError} =>
         (r.ConfidenceScore = 0 /\ r.MatchedTrack = Nil)
    /\ r.Error # NoErr => r.Status = TrackStatusError
C8_TrackResultInvariant ==
    /\ \A w \in WorkerIds : ResultWellFormed(wres[w].result)
    /\ \A k \in 1 .. Len(resultCh) : ResultWellFormed(resultCh[k].result)
    /\ \A i \in DOMAIN results : ResultWellFormed(results[i])
    /\ ret.result # Nil =>
         \A i \in DOMAIN ret.result[1].TrackResults :
            ResultWellFormed(ret.result[1].TrackResults[i])
\* a search returned a score without a track, another a track with an error
C8_Witness ==
    /\ ret.result # Nil
    /\ \E i \in DOMAIN tracks :
         /\ calls.out[i] # <<>>
         /\ calls.out[i][1].track = Nil
         /\ calls.out[i][1].score > 0
         /\ results[i].Status = TrackStatusNotFound
    /\ \E i \in DOMAIN tracks :
         /\ calls.out[i] # <<>>
         /\ calls.out[i][1].track # Nil
         /\ calls.out[i][1].err # NoErr

\* the ExternalIDs of the matched entries of res, by increasing index
MatchedExternalIDs(res) ==
    LET M == {i \in DOMAIN res : res[i].Status = TrackStatusMatched}
        rank(i) == Cardinality({j \in M : j < i}) + 1
    IN [k \in 1 .. Cardinality(M) |->
          res[CHOOSE i \in M : rank(i) = k].MatchedTrack[1].ExternalID]

\* C9: bulk add: AddTracksToPlaylist is called at most once, on the
\* playlist ID CreatePlaylist returned, with the ExternalIDs of the matched
\* results in source order (as many as MatchedTracks); once CreatePlaylist
\* has returned an ID it is called when at least one track matched and never
\* when none did.
C9_BulkAdd ==
    /\ Len(calls.add) <= 1
    /\ \A k \in 1 .. Len(calls.add) :
         LET c == calls.add[k].call IN
         /\ CreateSucceeded
         /\ c.prov = req.DestProvider
         /\ c.playlist = calls.create[1].id
         /\ c.ids = MatchedExternalIDs(results)
         /\ Len(c.ids) = matched
         /\ c.ids # <<>>
    /\ (pc = "done" /\ CreateSucceeded) =>
         (Len(calls.add) = 1 <=>
            \E i \in DOMAIN results : results[i].Status = TrackStatusMatched)
\* both tracks matched, collected in reverse order, added in source order
C9_Witness ==
    /\ pc = "done"
    /\ Len(calls.add) = 1
    /\ calls.add[1].call.ids = <<"x", "y">>
    /\ calls.add[1].call.playlist = "pl-2"
    /\ collected = <<1, 0>>

\* C10: unknown provider: when the source or the destination name is not
\* registered no provider operation is ever invoked, and MigratePlaylist
\* returns no result and an "unknown provider" error naming the side and the
\* requested name, the source side when both are unregistered.
C10_UnknownProvider ==
    (Unregistered(req.SourceProvider) \/ Unregistered(req.DestProvider)) =>
      /\ calls = NoCalls
      /\ pc = "done" =>
           /\ ret.result = Nil
           /\ ret.err =
                IF Unregistered(req.SourceProvider)
                THEN <<"source provider error", "unknown provider",
                       req.SourceProvider>>
                ELSE <<"destination provider error", "unknown provider",
                       req.DestProvider>>
\* both names unregistered, request finished
C10_Witness ==
    /\ pc = "done"
    /\ Unregistered(req.SourceProvider)
    /\ Unregistered(req.DestProvider)
    /\ ret.err # NoErr

GetCalled == Len(calls.get) > 0
GetFailed == GetCalled /\ calls.get[1].err # NoErr
GetEmpty == GetCalled /\ calls.get[1].err = NoErr /\ NTracks = 0
CreateFailed == Len(calls.create) > 0 /\ calls.create[1].err # NoErr
AddFailed == Len(calls.add) > 0 /\ calls.add[1].err # NoErr
NoSearch == \A i \in DOMAIN calls.search : calls.search[i] = 0

\* C11: empty source: when GetPlaylistTracks succeeds with zero tracks,
\* MigratePlaylist fails with the "source playlist is empty" error and makes
\* no SearchTrack, CreatePlaylist or AddTracksToPlaylist call.
C11_EmptySource ==
    GetEmpty =>
      /\ pc = "done"
      /\ ret.result = Nil
      /\ ret.err = <<"source playlist is empty">>
      /\ NoSearch /\ Started = {}
      /\ calls.create = <<>> /\ calls.add = <<>>
\* the source was asked and returned no track
C11_Witness ==
    /\ pc = "done"
    /\ GetEmpty
    /\ calls.get[1].prov = req.SourceProvider

\* C12: fatal failures abort: MigratePlaylist returns an error and no result
\* exactly when a provider name is unregistered, GetPlaylistTracks fails, the
\* source list is empty, CreatePlaylist fails or AddTracksToPlaylist fails;
\* nothing runs after the failure, and the error names the failed operation
\* in front of its cause.
C12_FatalFailuresAbort ==
    /\ pc = "done" =>
         /\ ret.err # NoErr <=> ret.result = Nil
         /\ ret.err # NoErr <=>
              \/ Unregistered(req.SourceProvider)
              \/ Unregistered(req.DestProvider)
              \/ GetFailed \/ GetEmpty \/ CreateFailed \/ AddFailed
         /\ GetFailed =>
              ret.err = Errorf("failed to fetch source tracks",
                               calls.get[1].err)
         /\ CreateFailed =>
              ret.err = Errorf("failed to create destination playlist",
                               calls.create[1].err)
         /\ AddFailed =>
              ret.err = Errorf("failed to add tracks to destination playlist",
                               calls.add[1].err)
    /\ GetFailed =>
         (pc = "done" /\ NoSearch /\ Started = {}
          /\ calls.create = <<>> /\ calls.add = <<>>)
    /\ CreateFailed => (pc = "done" /\ calls.add = <<>>)
    /\ AddFailed => pc = "done"
\* the playlist was created, the bulk add failed, no result was returned
C12_Witness ==
    /\ pc = "done"
    /\ CreateSucceeded
    /\ AddFailed
    /\ ret.result = Nil

\* index i occurs exactly once among the collected results
CollectedOnce(i) == Cardinality({k \in 1 .. Len(collected) : collected[k] = i}) = 1
CancellationTexts == {<<"context cancelled">>, CancelErr}

\* C13: cancellation before a search: a worker that sees the signal when it
\* takes item i does not call SearchTrack for it and deposits, for index i,
\* an error result with SourceTrack = tracks[i] and the message "context
\* cancelled"; whenever the signal fires, every index gets exactly one result
\* at its own position.
C13_CancelBeforeSearch ==
    /\ \A w \in WorkerIds :
         (wpc[w] = "send" /\ wres[w].result.Error = <<"context cancelled">>) =>
            /\ calls.search[wres[w].index] = 0
            /\ wres[w].result = CancelledResult(tracks[wres[w].index])
    /\ PipelineReturned =>
         \A i \in DOMAIN tracks :
            /\ CollectedOnce(i)
            /\ Len(collected) = NTracks
            /\ results[i].SourceTrack = tracks[i]
            /\ calls.search[i] = 0 <=> results[i] = CancelledResult(tracks[i])
            /\ calls.search[i] = 0 => cancelled
\* the first track was searched, the second was taken after the cancellation
C13_Witness ==
    /\ PipelineReturned
    /\ NTracks = 2
    /\ calls.search[0] = 1
    /\ calls.search[1] = 0
    /\ results[1].Status = TrackStatusError
    /\ results[1].Error = <<"context cancelled">>

\* a SearchTrack call entered before the signal and still running when it fired
CancelledInFlight(w) == cancelled /\ wpc[w] = "search"

\* C14 as claimed: a search that is in flight when the signal fires is
\* recorded with status error and a cancellation message.
C14_InFlightCancelIsError ==
    [][\A w \in WorkerIds :
         (CancelledInFlight(w) /\ wpc'[w] = "send") =>
            /\ wres'[w].result.Status = TrackStatusError
            /\ wres'[w].result.Error \in CancellationTexts]_vars

\* C14, amended: a search that is in flight when the signal fires is never
\* dropped: the worker goes on to deposit, for that index, what the call
\* returns, classified as usual - status error with the call's own error
\* message when the call returns an error (as a provider that aborts on the
\* signal does), matched or not_found when the call still completes.
C14_InFlightCancelRecorded ==
    [][\A w \in WorkerIds :
         CancelledInFlight(w) =>
            /\ calls.search[witem[w].index] = 1
            /\ calls.out[witem[w].index] = <<>>
            /\ wpc'[w] \in {"search", "send"}
            /\ wpc'[w] = "send" =>
                 /\ Len(calls'.out[witem[w].index]) = 1
                 /\ wres'[w].index = witem[w].index
                 /\ wres'[w].result =
                      Classify(witem[w].track, calls'.out[witem[w].index][1])
                 /\ wres'[w].result.Status = TrackStatusError <=>
                      calls'.out[witem[w].index][1].err # NoErr
                 /\ wres'[w].result.Error = calls'.out[witem[w].index][1].err]_vars
\* one call in flight at the signal has come back aborted and is about to be
\* deposited, the other is still in flight
C14_Witness ==
    /\ cancelled
    /\ \E w \in WorkerIds :
         /\ wpc[w] = "send"
         /\ wres[w].result.Error = CancelErr
         /\ calls.search[wres[w].index] = 1
    /\ \E w \in WorkerIds : CancelledInFlight(w)

\* the SearchTrack call for index i panicked
Faulted(i) == \E w \in WorkerIds : wpc[w] = "panicked" /\ witem[w].index = i

\* C15: failure containment: when the SearchTrack call for one track panics
\* inside a worker, the sibling workers keep processing, the faulted index
\* still receives a result with status error and the collector obtains all N
\* results, so that the pipeline returns.
C15_PanicContained ==
    \A i \in 0 .. (MaxTracks - 1) :
       Faulted(i) ~>
          /\ PipelineReturned
          /\ i \in DOMAIN results
          /\ results[i].Status = TrackStatusError
          /\ Len(collected) = NTracks
          /\ \A w \in Started : wpc[w] = "exited"

\* the indices of the items taken from trackCh and not yet given up
Dequeued == {witem[w].index : w \in {v \in WorkerIds : witem[v] # NoItem}}

\* C16 as claimed: no worker holds an item before all N items were enqueued,
\* and trackCh is closed only after the N-th enqueue.
C16_AllEnqueuedBeforeDequeue ==
    /\ Dequeued # {} => sent = NTracks
    /\ trackClosed => sent = NTracks

\* C16, amended: the workers are started before the enqueueing and take
\* items while later ones are still being enqueued; an item is dequeued only
\* after it was itself enqueued, in index order; trackCh is closed only after
\* the N-th item was enqueued and nothing is enqueued after the close.
C16_WorkDistribution ==
    /\ \A i \in Dequeued : i < sent
    /\ \A k \in 1 .. Len(trackCh) :
         /\ trackCh[k].index = sent - Len(trackCh) + k - 1
         /\ trackCh[k].track = tracks[trackCh[k].index]
    /\ sent <= NTracks
    /\ trackClosed => (sent = NTracks /\ pc # "produce")
    /\ (pc = "produce" /\ sent > 0) => Cardinality(Started) = workers
\* a worker is searching the first track before the second is enqueued
C16_Witness ==
    /\ NTracks = 2
    /\ sent = 1
    /\ ~trackClosed
    /\ \E w \in WorkerIds : wpc[w] = "search" /\ witem[w].index = 0

\* C17: no internal retries: within one request GetPlaylistTracks,
\* CreatePlaylist and AddTracksToPlaylist are each invoked at most once and
\* SearchTrack at most once per source index, also when the call fails: a
\* failed fatal call ends the request and a failed search is final.
C17_NoRetries ==
    /\ Len(calls.get) <= 1
    /\ Len(calls.create) <= 1
    /\ Len(calls.add) <= 1
    /\ \A i \in DOMAIN calls.search :
         /\ calls.search[i] <= 1
         /\ Len(calls.out[i]) <= calls.search[i]
         /\ (calls.out[i] # <<>> /\ calls.out[i][1].err # NoErr) =>
              \A w \in WorkerIds : witem[w] = NoItem \/ witem[w].index # i
    /\ (GetFailed \/ CreateFailed \/ AddFailed) =>
         (pc = "done" /\ InFlight = {})
\* a search failed, another matched, and the add call failed: one call each
C17_Witness ==
    /\ pc = "done"
    /\ AddFailed
    /\ Len(calls.get) = 1 /\ Len(calls.create) = 1 /\ Len(calls.add) = 1
    /\ \E i \in DOMAIN tracks :
         /\ calls.search[i] = 1
         /\ calls.out[i] # <<>>
         /\ calls.out[i][1].err # NoErr

\* some SearchTrack call has started
SearchStarted == \E i \in DOMAIN calls.search : calls.search[i] > 0

\* C18: step ordering: GetPlaylistTracks has completed before the first
\* SearchTrack call starts; when CreatePlaylist is invoked every SearchTrack
\* call has completed and every worker has exited; CreatePlaylist has
\* completed, without error, before AddTracksToPlaylist is invoked.
C18_StepOrdering ==
    /\ (SearchStarted \/ Started # {}) =>
         (Len(calls.get) = 1 /\ calls.get[1].err = NoErr)
    /\ (pc \in {"create", "add"} \/ calls.create # <<>>) =>
         /\ InFlight = {}
         /\ \A w \in Started : wpc[w] = "exited"
         /\ wg = 0
         /\ \A i \in DOMAIN tracks : Len(calls.out[i]) = calls.search[i]
    /\ (pc = "add" \/ calls.add # <<>>) => CreateSucceeded
\* both workers searched, and the three destination steps followed
C18_Witness ==
    /\ calls.add # <<>>
    /\ workers = 2
    /\ \A i \in DOMAIN tracks : calls.search[i] = 1
    /\ NTracks = 2
    /\ collected = <<1, 0>>

\* the indices whose search returned a candidate with score 0 and no error
WorthlessMatches ==
    {i \in DOMAIN tracks :
        /\ calls.out[i] # <<>>
        /\ calls.out[i][1].err = NoErr
        /\ calls.out[i][1].track # Nil
        /\ calls.out[i][1].score = 0}

\* C19: no score threshold: a track whose search returns a candidate with
\* score 0 is recorded as matched, is counted in MatchedTracks and its
\* ExternalID is part of the bulk add.
C19_NoScoreThreshold ==
    \A i \in WorthlessMatches :
       LET id == calls.out[i][1].track[1].ExternalID IN
       /\ PipelineReturned =>
            /\ results[i].Status = TrackStatusMatched
            /\ results[i].ConfidenceScore = 0
       /\ (pc \in {"create", "add"} \/ calls.create # <<>>) =>
            /\ matched = Cardinality({j \in DOMAIN results :
                                        results[j].Status = TrackStatusMatched})
            /\ \E k \in 1 .. Len(matchedIDs) : matchedIDs[k] = id
       /\ calls.create # <<>> => calls.create[1].call.matched >= 1
       /\ (pc = "done" /\ CreateSucceeded) =>
            /\ Len(calls.add) = 1
            /\ \E k \in 1 .. Len(calls.add[1].call.ids) :
                 calls.add[1].call.ids[k] = id
       /\ ret.result # Nil =>
            /\ ret.result[1].MatchedTracks >= 1
            /\ ret.result[1].TrackResults[i].Status = TrackStatusMatched
\* the only match of the request has score 0 and was added
C19_Witness ==
    /\ ret.result # Nil
    /\ NTracks = 2
    /\ Cardinality(WorthlessMatches) = 1
    /\ ret.result[1].MatchedTracks = 1
    /\ Len(calls.add) = 1
    /\ Len(calls.add[1].call.ids) = 1

\* what request r gets when it runs alone: its own tracks searched one by one
IsoAlone(r) ==
    IsoResult(r, [i \in DOMAIN IsoTracks[r] |->
                    Classify(IsoTracks[r][i], IsoSearch(IsoTracks[r][i]))])
IsoOwnItem(r, it) ==
    it = NoItem \/ (it.index \in DOMAIN IsoTracks[r] /\
                    it.track = IsoTracks[r][it.index])
IsoOwnResult(r, ir) ==
    ir = NoPending \/ (ir.index \in DOMAIN IsoTracks[r] /\
                       ir.result.SourceTrack = IsoTracks[r][ir.index])

\* C20: request isolation: of two calls of MigratePlaylist running
\* concurrently on one Service, each has its own work and result queues, every
\* result slot of a request is filled only by a search of that request's own
\* track at that index, and each request returns the MigrationResult it
\* returns when it runs alone.
C20_RequestIsolation ==
    \A r \in IsoRequests :
       LET q == iso.rq[r]
           c == iso.ch[r] IN
       /\ \A k \in 1 .. Len(c.trackCh) : IsoOwnItem(r, c.trackCh[k])
       /\ \A k \in 1 .. Len(c.resultCh) : IsoOwnResult(r, c.resultCh[k])
       /\ \A w \in WorkerIds :
            IsoOwnItem(r, q.witem[w]) /\ IsoOwnResult(r, q.wres[w])
       /\ \A i \in DOMAIN q.results :
            q.results[i] \in {ZeroResult, IsoAlone(r).result[1].TrackResults[i]}
       /\ q.pc = "done" => q.ret = IsoAlone(r)
\* both requests are collecting: each has its first slot filled and its
\* second result still in its own queue
C20_Witness ==
    \A r \in IsoRequests :
       /\ iso.rq[r].pc = "collect"
       /\ iso.rq[r].results[0] # ZeroResult
       /\ iso.rq[r].results[1] = ZeroResult
       /\ Len(iso.ch[r].resultCh) = 1

\* the entries a map holds after the assignments of lg, one after the other
RECURSIVE MapAfter(_)
MapAfter(lg) ==
    IF lg = <<>> THEN {}
    ELSE LET n == Len(lg) IN
         {e \in MapAfter(SubSeq(lg, 1, n - 1)) : e.key # lg[n].key} \cup {lg[n]}
RegisteredNames == {rg.log[k].key : k \in 1 .. Len(rg.log)}
\* the provider of the last Register with this name
LastRegistered(name) ==
    LET ks == {k \in 1 .. Len(rg.log) : rg.log[k].key = name} IN
    rg.log[CHOOSE k \in ks : \A j \in ks : j <= k].val
\* the callers of operation op that have read and not yet returned
Returning(op) ==
    {t \in RegThreads : rg.th[t].pc = "runlock" /\ rg.th[t].op = op}

\* C21: registry lookup: Get(name) returns the provider most recently
\* registered under that name, and fails with "unknown provider" and the
\* requested name exactly when no provider of that name was registered; Get
\* and Available leave the registry's contents as the Register calls made them.
C21_RegistryLookup ==
    /\ ~rg.writing => rg.providers = MapAfter(rg.log)
    /\ \A t \in Returning("Get") :
         LET name == rg.th[t].arg
             out == rg.th[t].out IN
         /\ name \in RegisteredNames =>
              (out.err = NoErr /\ out.prov = Ptr(LastRegistered(name)))
         /\ name \notin RegisteredNames =>
              (out.prov = Nil /\ out.err = <<"unknown provider", name>>)
         /\ out.prov # Nil => out.prov[1].name = name
\* a name was registered twice and Get returns the second provider
C21_Witness ==
    /\ Len(rg.log) = 2
    /\ rg.log[1].key = rg.log[2].key
    /\ rg.log[1].val # rg.log[2].val
    /\ \E t \in Returning("Get") :
         /\ rg.th[t].arg = rg.log[2].key
         /\ rg.th[t].out.prov = Ptr(rg.log[2].val)

\* C22: Available returns exactly the names registered so far, each once:
\* registering a name again adds no second entry.
C22_RegistryAvailable ==
    \A t \in Returning("Available") :
       LET names == rg.th[t].out.names IN
       /\ {names[i] : i \in DOMAIN names} = RegisteredNames
       /\ Len(names) = Cardinality(RegisteredNames)
       /\ \A i, j \in DOMAIN names : i # j => names[i] # names[j]
\* the same name was registered twice and Available lists one name
C22_Witness ==
    /\ Len(rg.log) = 2
    /\ rg.log[1].key = rg.log[2].key
    /\ rg.log[1].val # rg.log[2].val
    /\ \E t \in Returning("Available") : Len(rg.th[t].out.names) = 1

\* the callers that are at the map
RegWriting == {t \in RegThreads : rg.th[t].pc \in {"write", "writing", "unlock"}}
RegReading == {t \in RegThreads : rg.th[t].pc \in {"read", "runlock"}}

\* C23: concurrency safety of the registry: while a Register is at the
\* provider map no other Register, Get or Available is; readers may be at it
\* together; a Get or Available never reads a map that is being written and
\* yields the contents before or after each Register.
C23_RegistryLocking ==
    /\ Cardinality(RegWriting) <= 1
    /\ RegWriting # {} => RegReading = {}
    /\ rg.wr = RegWriting /\ rg.rd = RegReading
    /\ rg.writing => RegReading = {}
    /\ \A t \in RegThreads : rg.th[t].out # Fault
    /\ \A t \in Returning("Get") :
         rg.th[t].out = MapLookup(MapAfter(rg.log), rg.th[t].arg)
    /\ \A t \in Returning("Available") :
         \E r \in MapRange(MapAfter(rg.log)) :
            rg.th[t].out.names = [i \in DOMAIN r |-> r[i].key]
\* a Get and an Available are at the map together while a Register waits
C23_Witness ==
    /\ Returning("Get") # {}
    /\ Returning("Available") # {}
    /\ \E t \in RegThreads : rg.th[t].pc = "lock"
    /\ rg.log # <<>>

\* both tracks carry an ISRC and the two are equal up to case
IsrcMatch ==
    /\ sc.source.ISRC # <<>>
    /\ sc.candidate.ISRC # <<>>
    /\ ToLower(sc.source.ISRC) = ToLower(sc.candidate.ISRC)
SpotifyScored == sc.spotify # Nil
YouTubeScored == sc.youtube # Nil

\* C24: ISRC short-circuit: in both scorers a source and a candidate that
\* carry the same non-empty ISRC, up to case, score exactly 1.0 whatever the
\* names, artists and albums are.
C24_IsrcShortCircuit ==
    IsrcMatch =>
      /\ SpotifyScored => sc.spotify[1] = FullScore
      /\ YouTubeScored => sc.youtube[1] = FullScore

\* C25: clamping: both scorers return a score between 0.0 and 1.0, bounds
\* included, for every source track and every candidate.
C25_Clamping ==
    /\ SpotifyScored => (0 <= sc.spotify[1] /\ sc.spotify[1] <= FullScore)
    /\ YouTubeScored => (0 <= sc.youtube[1] /\ sc.youtube[1] <= FullScore)
\* every signal agrees without an ISRC: both scorers reach the full score
C25_Witness ==
    /\ ~IsrcMatch
    /\ sc.spotify = Ptr(FullScore)
    /\ sc.youtube = Ptr(FullScore)

\* the terms of the structured-metadata table
NameTerm ==
    IF ToLower(sc.source.Name) = ToLower(sc.candidate.Name) THEN 50
    ELSE IF Contains(ToLower(sc.candidate.Name), ToLower(sc.source.Name))
    THEN 30 ELSE 0
ArtistTerm ==
    IF ToLower(sc.source.Artist) = ToLower(sc.candidate.Artist) THEN 35
    ELSE IF Contains(ToLower(sc.candidate.Artist), ToLower(sc.source.Artist))
    THEN 20 ELSE 0
AlbumTerm ==
    IF sc.source.Album # <<>>
       /\ ToLower(sc.source.Album) = ToLower(sc.candidate.Album)
    THEN 15 ELSE 0

\* C26: structured-metadata table: without an ISRC match the Spotify scorer
\* returns name term + artist term + album term: 0.5 for equal names, else 0.3
\* when the candidate name contains the source name; 0.35 for equal artists,
\* else 0.2 on containment; 0.15 for equal albums when the source has one;
\* never the exact and the partial bonus of one signal together.
C26_SpotifyTable ==
    (SpotifyScored /\ ~IsrcMatch) =>
       /\ sc.spotify[1] = NameTerm + ArtistTerm + AlbumTerm
       /\ NameTerm \in {0, 30, 50}
       /\ ArtistTerm \in {0, 20, 35}
\* partial name, partial artist, and two empty albums that earn nothing
C26_Witness ==
    /\ SpotifyScored
    /\ ~IsrcMatch
    /\ NameTerm = 30
    /\ ArtistTerm = 20
    /\ sc.source.Album = <<>> /\ sc.candidate.Album = <<>>
    /\ sc.spotify[1] = 50

\* the words of the lowercased source name, and those longer than 2 characters
SourceWords == Fields(ToLower(sc.source.Name))
KeptWords == {i \in DOMAIN SourceWords : Len(SourceWords[i]) > 2}
KeptInTitle ==
    {i \in KeptWords : Contains(ToLower(sc.candidate.Name), SourceWords[i])}
ArtistInTitleOrChannel ==
    \/ Contains(ToLower(sc.candidate.Name), ToLower(sc.source.Artist))
    \/ Contains(ToLower(sc.candidate.Artist), ToLower(sc.source.Artist))
TitlesEqual == ToLower(sc.source.Name) = ToLower(sc.candidate.Name)
ArtistAndExactTerms ==
    (IF ArtistInTitleOrChannel THEN 40 ELSE 0) + (IF TitlesEqual THEN 10 ELSE 0)

\* C27 as claimed: the YouTube name term is 0.5 x (kept words found in the
\* title) / (kept words); 0.4 is added for the artist in title or channel and
\* 0.1 for equal lowercased names.
C27_TitleOnlyKeptFraction ==
    YouTubeScored =>
      sc.youtube[1] =
        (IF KeptWords = {} THEN 0
         ELSE (50 * Cardinality(KeptInTitle)) \div Cardinality(KeptWords))
        + ArtistAndExactTerms

\* C27, amended: the YouTube name term is a flat 0.5 when the lowercased
\* title contains the whole lowercased source name (the empty name included);
\* otherwise it is 0.5 x (words longer than 2 characters found in the title)
\* / (all words of the source name, the short ones included), and 0 for a name
\* without words; 0.4 is added for the artist in title or channel, 0.1 for
\* equal lowercased names, and the sum is capped at 1.0.
C27_TitleOnlyScorer ==
    YouTubeScored =>
      LET nameTerm ==
            IF Contains(ToLower(sc.candidate.Name), ToLower(sc.source.Name))
            THEN 50
            ELSE IF Len(SourceWords) = 0 THEN 0
            ELSE (50 * Cardinality(KeptInTitle)) \div Len(SourceWords)
          total == nameTerm + ArtistAndExactTerms
      IN /\ sc.youtube[1] = (IF total > 100 THEN 100 ELSE total)
         /\ (50 * Cardinality(KeptInTitle)) % (IF Len(SourceWords) = 0 THEN 1
                                               ELSE Len(SourceWords)) = 0
\* "ab cde" against the title "cde": one of two words counts, a quarter
C27_Witness ==
    /\ YouTubeScored
    /\ Len(SourceWords) = 2
    /\ Cardinality(KeptWords) = 1
    /\ Cardinality(KeptInTitle) = 1
    /\ ~Contains(ToLower(sc.candidate.Name), ToLower(sc.source.Name))
    /\ ~ArtistInTitleOrChannel
    /\ sc.youtube[1] = 25

Answered == hs.resp # Nil
IsMigrate == hs.req.route = "POST /api/v1/migrate"
IsList == hs.req.route = "GET /api/v1/playlists"
\* a field of the body that is missing or empty
LacksField ==
    \E f \in RequestFields :
       hs.req.body[1].fields[f] = Nil \/ hs.req.body[1].fields[f] = Ptr("")

\* C28: request validation: a POST /api/v1/migrate whose body lacks, or
\* leaves empty, any of the five fields is answered 400 and MigratePlaylist
\* of the service is not invoked for it.
C28_RequestValidation ==
    (IsMigrate /\ LacksField) =>
       /\ hs.svc = <<>>
       /\ Answered => hs.resp[1].status = 400
\* four fields are filled in and playlist_id is present but empty
C28_Witness ==
    /\ IsMigrate /\ Answered
    /\ hs.req.body[1].wellformed
    /\ hs.req.body[1].fields["playlist_id"] = Ptr("")
    /\ \A f \in RequestFields \ {"playlist_id"} :
          hs.req.body[1].fields[f] = Ptr("v")
    /\ hs.resp[1].status = 400

\* C29: ListPlaylists endpoint checks: without a provider parameter the
\* answer is 400, also when the token is missing too; with a provider and an
\* empty Authorization header it is 401; the service is invoked only when both
\* are present, and a service error is answered 500.
C29_ListPlaylistsChecks ==
    IsList =>
       /\ hs.svc # <<>> => (hs.req.provider # "" /\ hs.req.auth # <<>>)
       /\ Len(hs.svc) <= 1
       /\ Answered =>
            /\ hs.req.provider = "" => hs.resp[1].status = 400
            /\ (hs.req.provider # "" /\ hs.req.auth = <<>>) =>
                 hs.resp[1].status = 401
            /\ (hs.req.provider # "" /\ hs.req.auth # <<>>) =>
                 /\ Len(hs.svc) = 1
                 /\ hs.svc[1].provider = hs.req.provider
                 /\ hs.svc[1].err # NoErr => hs.resp[1].status = 500
                 /\ hs.svc[1].err = NoErr => hs.resp[1].status = 200
\* neither provider nor token: the answer is 400
C29_Witness ==
    /\ IsList /\ Answered
    /\ hs.req.provider = ""
    /\ hs.req.auth = <<>>
    /\ hs.resp[1].status = 400
    /\ hs.svc = <<>>

\* the pages up to the first one that fails, that one included
FirstFailure ==
    IF \E k \in DOMAIN ad.pages : ad.pages[k].fail # ""
    THEN CHOOSE k \in DOMAIN ad.pages :
            ad.pages[k].fail # "" /\ \A j \in DOMAIN ad.pages :
                                        ad.pages[j].fail # "" => k <= j
    ELSE 0
\* the identifiers of all entries of the pages k.., in page order
RECURSIVE EntryIDs(_)
EntryIDs(k) ==
    IF k > Len(ad.pages) THEN <<>>
    ELSE [i \in DOMAIN ad.pages[k].items |-> ad.pages[k].items[i].id]
         \o EntryIDs(k + 1)
NonEmpty(id) == id # ""

\* C30: adapter track listing: GetPlaylistTracks of both adapters returns,
\* in page order, every entry with a non-empty identifier of all pages,
\* following the next link or token until a page has none; entries without
\* identifier are skipped; when a page request or parse fails it returns an
\* error and no track at all, and asks for no further page.
C30_AdapterListing ==
    ad.ret # Nil =>
      LET out == ad.ret[1] IN
      IF FirstFailure = 0
      THEN /\ out.err = NoErr
           /\ ad.fetched = Len(ad.pages)
           /\ [i \in DOMAIN out.tracks |-> out.tracks[i].ExternalID]
                = SelectSeq(EntryIDs(1), NonEmpty)
      ELSE /\ out.err # NoErr
           /\ out.tracks = <<>>
           /\ ad.fetched = FirstFailure
\* an entry without ID is skipped on the first page; the second page follows
C30_Witness ==
    /\ ad.ret # Nil
    /\ Len(ad.pages) = 2
    /\ ad.provider = "youtube"
    /\ ad.pages[1].items = <<[id |-> "", title |-> <<"song">>],
                            [id |-> "v2", title |-> <<"artist", "-", "tune",
                                                      "(Official Video)">>]>>
    /\ Len(ad.pages[2].items) = 1
    /\ ad.ret[1].tracks = <<Track(<<"tune">>, "v2"), Track(<<"song">>, "v1")>>

\* what SearchTrack returned for the track at index i
SearchFn(i) == calls.out[i][1]
\* the TrackResult a single worker records for index i
SequentialResult(i) ==
    LET o == SearchFn(i) IN
    [SourceTrack |-> tracks[i],
     MatchedTrack |-> IF o.err = NoErr THEN o.track ELSE Nil,
     Status |-> IF o.err # NoErr THEN TrackStatusError
                ELSE IF o.track = Nil THEN TrackStatusNotFound
                ELSE TrackStatusMatched,
     ConfidenceScore |-> IF o.err = NoErr /\ o.track # Nil THEN o.score ELSE 0,
     Error |-> o.err]
\* the IDs a single worker's run hands to the bulk add, from index i on
RECURSIVE SequentialIDs(_)
SequentialIDs(i) ==
    IF i \notin DOMAIN tracks THEN <<>>
    ELSE (IF SequentialResult(i).Status = TrackStatusMatched
          THEN <<SearchFn(i).track[1].ExternalID>> ELSE <<>>)
         \o SequentialIDs(i + 1)
\* the MigrationResult of the run that handles the tracks one after the other
SequentialMigration ==
    [SourcePlaylist |-> req.PlaylistID,
     DestPlaylistID |-> calls.create[1].id,
     TotalTracks |-> NTracks,
     MatchedTracks |-> Len(SequentialIDs(0)),
     FailedTracks |-> NTracks - Len(SequentialIDs(0)),
     TrackResults |-> [i \in DOMAIN tracks |-> SequentialResult(i)]]

\* C31: equivalence with sequential processing: with what SearchTrack
\* returns fixed per track and the context never cancelled, the
\* MigrationResult and the ID list passed to the bulk add are, for every
\* worker count and every interleaving, those of the run that handles the
\* tracks one after the other.
C31_SequentialEquivalence ==
    (pc = "done" /\ ~cancelled /\ CreateSucceeded) =>
      /\ ret.result # Nil => ret.result[1] = SequentialMigration
      /\ SequentialIDs(0) = <<>> => calls.add = <<>>
      /\ SequentialIDs(0) # <<>> =>
           (Len(calls.add) = 1 /\ calls.add[1].call.ids = SequentialIDs(0))
\* two workers, the second track's result arrived first, both tracks matched
C31_Witness ==
    /\ pc = "done"
    /\ ~cancelled
    /\ workers = 2
    /\ ret.result # Nil
    /\ collected = <<1, 0>>
    /\ ret.result[1].MatchedTracks = 2
    /\ calls.add[1].call.ids = <<"x", "y">>

\* the times index i was written into the results slice
Writes(i) == Cardinality({k \in 1 .. Len(collected) : collected[k] = i})
\* a worker that still has a result to deposit, now or later
Depositing(w) == wpc[w] \in {"select", "search", "send"}

\* C32: results queue protocol: the results queue is closed only after every
\* worker has exited, so no worker sends on a closed results queue; each
\* index 0..N-1 is written into the output slice exactly once, no slot twice
\* and none left zero-valued; the collector returns only after all N results
\* were received.
C32_ResultsQueueProtocol ==
    /\ resultClosed =>
         /\ launched = workers
         /\ \A w \in WorkerIds : wpc[w] \in {"idle", "exited"}
         /\ Started # {}
         /\ wg = 0
    /\ \A w \in WorkerIds : Depositing(w) => ~resultClosed
    /\ \A i \in DOMAIN tracks : Writes(i) <= 1
    /\ \A k \in 1 .. Len(collected) : collected[k] \in DOMAIN tracks
    /\ PipelineReturned =>
         /\ resultClosed /\ resultCh = <<>>
         /\ Len(collected) = NTracks
         /\ \A i \in DOMAIN tracks :
              Writes(i) = 1 /\ results[i] # ZeroResult
\* two workers have exited, the queue is closed, the collector has returned
\* with both slots written
C32_Witness ==
    /\ pc = "aggregate"
    /\ resultClosed
    /\ workers = 2 /\ NTracks = 2
    /\ \A w \in WorkerIds : wpc[w] = "exited"
    /\ \A i \in DOMAIN tracks : Writes(i) = 1 /\ results[i] # ZeroResult

\* the pipeline has returned and none of its results is a match
NothingMatched ==
    /\ DOMAIN results = DOMAIN tracks
    /\ NTracks > 0
    /\ Len(collected) = NTracks
    /\ \A i \in DOMAIN results :
         results[i].Status \in {TrackStatusNotFound, TrackStatusError}

\* C33: zero matches still creates a playlist: when the pipeline yields no
\* matched track, MigratePlaylist calls CreatePlaylist exactly once, with the
\* name "Migrated from <source provider>" and the description numbers 0/N,
\* never calls AddTracksToPlaylist and, the playlist created, returns a
\* result with MatchedTracks = 0 and FailedTracks = N; in general the
\* description's numbers are the result's MatchedTracks and TotalTracks.
C33_ZeroMatches ==
    /\ (pc = "done" /\ NothingMatched) =>
         /\ Len(calls.create) = 1
         /\ calls.create[1].call =
              [prov |-> req.DestProvider,
               name |-> <<"Migrated from", req.SourceProvider>>,
               matched |-> 0, total |-> NTracks]
         /\ calls.add = <<>>
         /\ calls.create[1].err = NoErr =>
              /\ ret.err = NoErr /\ ret.result # Nil
              /\ ret.result[1].MatchedTracks = 0
              /\ ret.result[1].FailedTracks = NTracks
              /\ ret.result[1].DestPlaylistID = calls.create[1].id
    /\ ret.result # Nil =>
         /\ Len(calls.create) = 1
         /\ calls.create[1].call.matched = ret.result[1].MatchedTracks
         /\ calls.create[1].call.total = ret.result[1].TotalTracks
\* one track was not found, the search of the other failed; the playlist was
\* created and the request succeeded
C33_Witness ==
    /\ pc = "done"
    /\ NothingMatched
    /\ NTracks = 2
    /\ results[0].Status = TrackStatusNotFound
    /\ results[1].Status = TrackStatusError
    /\ calls.create[1].call.matched = 0
    /\ ret.result # Nil
    /\ ret.result[1].FailedTracks = 2
    /\ ret.result[1].DestPlaylistID = "pl-1"

\* the pipeline is entered with ctx already cancelled
StartsCancelled == cancelled /\ pc = "launch" /\ launched = 0
\* ctx is cancelled and no SearchTrack call was started so far
CancelledUnsearched == cancelled /\ NoSearch /\ InFlight = {}
\* the collector has received a result for every track
AllCollected == NTracks > 0 /\ Len(collected) = NTracks

\* C34: cancellation does not stop the orchestration: with ctx cancelled
\* when the pipeline starts no SearchTrack call is made and all N results
\* are status error with "context cancelled"; MigratePlaylist nevertheless
\* goes on to call CreatePlaylist and, when that call succeeds, returns a
\* result with MatchedTracks = 0 and FailedTracks = N, without a bulk add.
C34_CancelledSafety ==
    /\ StartsCancelled => NoSearch
    /\ (CancelledUnsearched /\ AllCollected /\ pc \notin {"collect"}) =>
         /\ \A i \in DOMAIN tracks : results[i] = CancelledResult(tracks[i])
         /\ pc = "done" =>
              /\ Len(calls.create) = 1
              /\ calls.create[1].call.matched = 0
              /\ calls.add = <<>>
              /\ CreateSucceeded =>
                   /\ ret.err = NoErr /\ ret.result # Nil
                   /\ ret.result[1].MatchedTracks = 0
                   /\ ret.result[1].FailedTracks = NTracks
C34_CancelledStillCreates ==
    /\ []C34_CancelledSafety
    /\ [][CancelledUnsearched => (NoSearch /\ InFlight = {})']_vars
    /\ StartsCancelled ~>
         (pc = "done" /\ NoSearch /\ Len(calls.create) = 1)
\* ctx was cancelled before any worker looked at a track: two results with
\* "context cancelled", a playlist created, a successful return
C34_Witness ==
    /\ pc = "done"
    /\ cancelled /\ NoSearch
    /\ NTracks = 2
    /\ \A i \in DOMAIN tracks : results[i] = CancelledResult(tracks[i])
    /\ CreateSucceeded
    /\ ret.result # Nil
    /\ ret.result[1].FailedTracks = 2

\* C35: no rollback on bulk-add failure: when CreatePlaylist succeeded and
\* AddTracksToPlaylist then fails, MigratePlaylist returns an error and a nil
\* result - neither the created playlist's ID nor the per-track results are
\* reported - and makes no further provider call: the playlist created in
\* this run remains.
C35_NoRollback ==
    AddFailed =>
      /\ pc = "done"
      /\ ret.result = Nil
      /\ ret.err = <<"failed to add tracks to destination playlist">>
                     \o calls.add[1].err
      /\ Len(calls.create) = 1
      /\ calls.create[1].err = NoErr
      /\ calls.create[1].id \in PlaylistIDs
      /\ destPlaylistID = calls.create[1].id
      /\ Len(calls.add) = 1
      /\ calls.add[1].call.playlist = calls.create[1].id
      /\ Len(calls.get) = 1
\* one of two tracks matched, playlist pl-1 was created, the add was refused
C35_Witness ==
    /\ pc = "done"
    /\ AddFailed
    /\ NTracks = 2
    /\ matched = 1
    /\ destPlaylistID = "pl-1"
    /\ calls.add[1].call.ids = <<"y">>
    /\ ret.result = Nil

\* the batch bound of the provider called
BatchBound == IF ad.provider = "spotify" THEN 100 ELSE 1
\* the IDs request k carries
RequestIDs(k) ==
    [j \in 1 .. Len(ad.requests[k].body) |-> ad.requests[k].body[j][2]]
\* the slice of the input that belongs into request k
ExpectedBatch(k) ==
    LET n == Len(ad.trackIDs)
        last == IF k * BatchBound > n THEN n ELSE k * BatchBound
    IN SubSeq(ad.trackIDs, (k - 1) * BatchBound + 1, last)
AllRequestsOK == \A k \in 1 .. Len(ad.requests) : ad.requests[k].ok
\* the number of input IDs covered by the first k requests
Covered(k) ==
    IF k * BatchBound > Len(ad.trackIDs) THEN Len(ad.trackIDs)
    ELSE k * BatchBound

\* C36: adapter batching of the bulk add: AddTracksToPlaylist sends the IDs
\* in input order in consecutive requests of at most B IDs (100 for Spotify,
\* 1 for YouTube), each ID in exactly one request, ceil(n/B) requests when
\* all succeed and none for an empty list; it stops at the first failing
\* request, returns its error, sends no later batch and leaves the earlier
\* batches added.
C36_AdapterBatching ==
    LET n == Len(ad.trackIDs)
        posted == Len(ad.requests) IN
    /\ \A k \in 1 .. posted :
         /\ RequestIDs(k) = ExpectedBatch(k)
         /\ Len(RequestIDs(k)) \in 1 .. BatchBound
         /\ ad.requests[k].playlist = ad.playlistID
         /\ ~ad.requests[k].ok => k = posted
    /\ AllRequestsOK => ad.added = SubSeq(ad.trackIDs, 1, Covered(posted))
    /\ ~AllRequestsOK =>
         /\ ad.ret # Nil /\ ad.ret[1] # NoErr
         /\ SubSeq(ad.added, 1, Covered(posted - 1))
              = SubSeq(ad.trackIDs, 1, Covered(posted - 1))
         /\ Len(ad.added) \in {Covered(posted - 1), Covered(posted)}
    /\ ad.ret # Nil =>
         IF ad.ret[1] = NoErr
         THEN /\ AllRequestsOK
              /\ posted = (n + BatchBound - 1) \div BatchBound
              /\ ad.added = ad.trackIDs
         ELSE ~AllRequestsOK
\* Spotify, 201 IDs: two full batches were added, the third request, with the
\* last ID alone, failed
C36_Witness ==
    /\ ad.provider = "spotify"
    /\ Len(ad.trackIDs) = 201
    /\ Len(ad.requests) = 3
    /\ Len(ad.requests[2].body) = 100
    /\ ad.requests[3].body = <<<<"spotify:track", "201">>>>
    /\ ~ad.requests[3].ok
    /\ Len(ad.added) = 200
    /\ ad.ret # Nil

\* the kinds of the searches made so far, in order
QueryKinds == [k \in 1 .. Len(ad.queries) |-> ad.queries[k].kind]
\* the ISRC search came back with a candidate
IsrcFound == ad.isrcResp.kind = "items" /\ ad.isrcResp.items # <<>>
\* what the name + artist search alone makes SearchTrack return
NameDecides ==
    LET resp == ad.nameResp
        out == ad.ret[1] IN
    /\ resp.kind \in {"request", "parse"} =>
         (out.err # NoErr /\ out.track = Nil /\ out.score = 0)
    /\ (resp.kind = "items" /\ resp.items = <<>>) =>
         (out.err = NoErr /\ out.track = Nil /\ out.score = 0)
    /\ (resp.kind = "items" /\ resp.items # <<>>) =>
         /\ out.err = NoErr
         /\ out.track = <<resp.items[1]>>
         /\ out.score = SpotifyConfidence(ad.source, resp.items[1])

\* C37: Spotify ISRC-first search: for a source with an ISRC, SearchTrack
\* first makes the ISRC search; a candidate it returns is returned with score
\* 1.0 and no name + artist search is made; when it fails or returns nothing
\* the failure is swallowed and the name + artist search runs, whose outcome
\* alone decides the result; a source without ISRC gets the name + artist
\* search only.
C37_IsrcFirst ==
    /\ ad.source.ISRC = <<>> => QueryKinds \in {<<>>, <<"name">>}
    /\ ad.source.ISRC # <<>> =>
         QueryKinds \in {<<>>, <<"isrc">>, <<"isrc", "name">>}
    /\ ad.ret # Nil =>
         IF ad.source.ISRC # <<>> /\ IsrcFound
         THEN /\ QueryKinds = <<"isrc">>
              /\ ad.ret[1] = [track |-> <<ad.isrcResp.items[1]>>,
                              score |-> 100, err |-> NoErr]
         ELSE /\ QueryKinds = IF ad.source.ISRC # <<>>
                              THEN <<"isrc", "name">> ELSE <<"name">>
              /\ NameDecides
\* the ISRC search failed; the name + artist search found a candidate, which
\* was returned with the score of calculateConfidence
C37_Witness ==
    /\ ad.ret # Nil
    /\ ad.source.ISRC = <<"i">>
    /\ ad.source.Name = <<"a", "b", "c">>
    /\ ad.isrcResp.kind = "request"
    /\ QueryKinds = <<"isrc", "name">>
    /\ ad.nameResp.kind = "items"
    /\ Len(ad.nameResp.items) = 2
    /\ ad.ret[1].err = NoErr
    /\ ad.ret[1].track # Nil
    /\ ad.ret[1].score = 65

\* the name term of the YouTube scorer
TitleTerm ==
    IF Contains(ToLower(sc.candidate.Name), ToLower(sc.source.Name)) THEN 50
    ELSE IF Len(SourceWords) = 0 THEN 0
    ELSE (50 * Cardinality(KeptInTitle)) \div Len(SourceWords)
Capped(total) == IF total > 100 THEN 100 ELSE total
EmptyArtist == sc.source.Artist = <<>>
EmptyName == sc.source.Name = <<>>

\* C38: empty source fields earn containment bonuses: a source with an empty
\* artist gets the partial artist bonus (+0.2) of the Spotify scorer from
\* every candidate with a non-empty artist and the artist bonus (+0.4) of the
\* YouTube scorer from every candidate; a source with an empty name gets the
\* name containment bonus, +0.3 in the Spotify scorer from every candidate
\* with a non-empty name and +0.5 in the YouTube scorer from every candidate.
C38_EmptyFieldBonuses ==
    /\ (SpotifyScored /\ EmptyArtist /\ sc.candidate.Artist # <<>>) =>
         /\ sc.spotify[1] >= 20
         /\ ~IsrcMatch => sc.spotify[1] = NameTerm + 20 + AlbumTerm
    /\ (SpotifyScored /\ EmptyName /\ sc.candidate.Name # <<>>) =>
         /\ sc.spotify[1] >= 30
         /\ ~IsrcMatch => sc.spotify[1] = 30 + ArtistTerm + AlbumTerm
    /\ (YouTubeScored /\ EmptyArtist) =>
         sc.youtube[1] =
           Capped(TitleTerm + 40 + (IF TitlesEqual THEN 10 ELSE 0))
    /\ (YouTubeScored /\ EmptyName) =>
         sc.youtube[1] =
           Capped(50 + (IF ArtistInTitleOrChannel THEN 40 ELSE 0)
                     + (IF sc.candidate.Name = <<>> THEN 10 ELSE 0))
\* a source without name, artist, album and ISRC against the candidate
\* "zz" by "q": 0.3 + 0.2 from the Spotify scorer, 0.5 + 0.4 from YouTube's
C38_Witness ==
    /\ EmptyArtist /\ EmptyName
    /\ sc.source.Album = <<>> /\ sc.source.ISRC = <<>>
    /\ sc.candidate.Name = <<"z", "z">>
    /\ sc.candidate.Artist = <<"q">>
    /\ sc.spotify = Ptr(50)
    /\ sc.youtube = Ptr(90)
====
